---------------------------- MODULE Spec2Model ----------------------------
(***************************************************************************)
(* Adversarial SQuAD dataset creation (AddSent and AddAny) as a state      *)
(* machine.  A corpus is the parsed JSON tree                               *)
(*   [version, data: Seq of [title, paragraphs: Seq of [context, qas]]]     *)
(* a QAPair is [id, question, is_impossible, answers] and an answer is      *)
(* [text, answer_start] with a zero-based answer_start, as in the files.    *)
(* Python strings are TLA+ strings; a Python index i is position i+1 here.  *)
(***************************************************************************)
EXTENDS Integers, Sequences, FiniteSets, TLC

VARIABLES
    strategy,       \* which notebook's process_squad_file runs: "AddSent" | "AddAny"
    kwargs,         \* the keyword arguments the caller gave: <<>> or <<<<name, value>>>>
    num_sentences,  \* AddAny's num_sentences parameter
    input_file,     \* the corpus stored in input_file (never written)
    output_file,    \* <<>> while output_file is not written, <<corpus>> once it is
    data,           \* data = json.load(f): the in-memory input corpus
    new_data,       \* the corpus under construction
    new_article,    \* the article under construction
    adv_context,    \* adversarial context of the current paragraph
    new_qas,        \* QAPairs collected for the current paragraph
    choices,        \* values random.choice returned for the current paragraph
    article_i,      \* number of articles the outer loop has taken
    paragraph_i,    \* number of paragraphs of the article the loop has taken
    qa_i,           \* number of QAPairs of the paragraph the loop has taken
    pc,             \* "articles" | "paragraphs" | "qas" | "done" | "raised"
    exc,            \* the exception that ended the run, "" if none
    reloc,          \* the span relocation step on its own (RelocSpec)
    draws,          \* the indices random.choice has drawn so far in this run
    first_run,      \* an earlier run of the same call under the same seed
    squad_files,    \* the data list stored in each attack file, in attack_files order
    attack_i,       \* number of attack_files entries the evaluation loop has taken
    results,        \* evaluate_attack's results list
    all_results,    \* the rows of the attacks evaluated so far
    csv_file,       \* <<>> until the results are saved, <<rows>> once they are
    eval_article_i,   \* number of articles evaluate_attack has taken
    eval_paragraph_i, \* number of paragraphs of the article it has taken
    eval_qa_i,        \* number of QAPairs of the paragraph it has taken
    eval_pc,        \* "idle" | "attacks" | "articles" | "paragraphs" | "qas" |
                    \* "saved" | "summarized" | "KeyError"
    summary,        \* <<>> until the summary is computed, <<rows>> once it is
    calls,          \* the (question, context) pairs get_answer was called with
    f1              \* calculate_f1_score on its own (F1Spec)

vars == <<strategy, kwargs, num_sentences, input_file, output_file, data, new_data,
          new_article, adv_context, new_qas, choices, article_i, paragraph_i,
          qa_i, pc, exc, reloc, draws, first_run, squad_files, attack_i,
          results, all_results, csv_file, eval_article_i, eval_paragraph_i,
          eval_qa_i, eval_pc, summary, calls, f1>>

\* the state of the evaluation notebook
eval_vars == <<squad_files, attack_i, results, all_results, csv_file,
               eval_article_i, eval_paragraph_i, eval_qa_i, eval_pc, summary,
               calls>>

-----------------------------------------------------------------------------
(* Bounds of the explored inputs *)

\* longest generated context
MaxContextLen == 2
\* longest generated answer text
MaxTextLen == 2
\* random.choice over the sentence pool returns one of the first MaxChoice
MaxChoice == 2
\* most articles of a hand-built corpus
MaxArticles == 2
\* most paragraphs of a hand-built corpus
MaxParagraphs == 3

\* process_squad_file(input_file, output_file, num_sentences=1)
DefaultNumSentences == 1
\* process_squad_file(input_file, output_file, num_sentences=2)
MainNumSentences == 2

-----------------------------------------------------------------------------
(* Python built-ins *)

\* the Python indices of s, from i on, at which sub occurs
occurrences(s, sub, i) ==
    {j \in i..(Len(s) - Len(sub)) : SubSeq(s, j + 1, j + Len(sub)) = sub}

\* s.find(sub, i): the lowest index >= i at which sub occurs in s, -1 when
\* there is none
str_find(s, sub, i) ==
    LET found == occurrences(s, sub, i)
    IN  IF found = {} THEN -1
        ELSE CHOOSE j \in found : \A k \in found : j <= k

\* s.rfind(sub): the highest index at which sub occurs in s, -1 when none
str_rfind(s, sub) ==
    LET found == occurrences(s, sub, 0)
    IN  IF found = {} THEN -1
        ELSE CHOOSE j \in found : \A k \in found : j >= k

\* faulty variant of str_index: the last occurrence instead of the first
str_index_last(s, sub) == str_rfind(s, sub)

\* faulty variant of str_index: a one-based position instead of a zero-based one
str_index_one_based(s, sub) ==
    IF str_find(s, sub, 0) = -1 THEN -1 ELSE str_find(s, sub, 0) + 1

\* s.index(sub): the lowest index at which sub occurs in s; -1 stands for
\* the ValueError it raises when sub does not occur
str_index(s, sub) == str_find(s, sub, 0)

\* " ".join(xs)
RECURSIVE join(_)
join(xs) ==
    IF xs = <<>> THEN ""
    ELSE IF Len(xs) = 1 THEN xs[1]
    ELSE xs[1] \o " " \o join(Tail(xs))

-----------------------------------------------------------------------------
(* generate_arbitrary_sentence: the fixed pool *)

arbitrary_sentences == <<
    "The weather was unusually warm that day.",
    "A new study shows that coffee might be good for your health.",
    "Scientists have discovered a new species of butterfly.",
    "The local museum is hosting a special exhibition next month.",
    "Recent advancements in technology have revolutionized communication.",
    "A group of researchers published a groundbreaking paper last week.",
    "The city council approved a new urban development plan.",
    "Experts predict significant changes in the job market over the next decade.",
    "A rare astronomical event will be visible in the night sky this weekend.",
    "The national park announced the birth of an endangered species.",
    "The restaurant introduced a new menu featuring exotic dishes.",
    "A famous actor announced his retirement from the film industry.",
    "The university is offering a new course on sustainable energy.",
    "A historic building in the city center was recently renovated.",
    "The annual music festival attracted thousands of visitors.",
    "New research suggests that meditation can improve mental health.",
    "The government launched a campaign to promote recycling.",
    "A local artist unveiled a new sculpture in the town square.",
    "Scientists are exploring the potential of renewable energy sources.",
    "The community center is organizing free workshops for residents.",
    "A groundbreaking ceremony was held for the new hospital wing.",
    "The library extended its hours to accommodate more visitors.",
    "A new bakery opened downtown, specializing in gluten-free pastries.",
    "The zoo welcomed a pair of rare pandas from China.",
    "An ancient manuscript was discovered in a remote monastery.",
    "The local theater is staging a production of Shakespeare's Hamlet.",
    "A tech company unveiled its latest smartphone model.",
    "Volunteers cleaned up the beach as part of an environmental initiative.",
    "A record-breaking heatwave hit the region last summer.",
    "A charity event raised funds for children's education.",
    "The city hosted an international conference on climate change.",
    "A famous chef published a cookbook filled with healthy recipes.",
    "The high school celebrated its centennial anniversary.",
    "A new bike-sharing program was launched in the city.",
    "The botanical garden is hosting a series of gardening workshops.",
    "A local author released a bestselling novel this month.",
    "The national museum opened a new exhibit on ancient Egypt.",
    "A renowned pianist performed at the concert hall last night.",
    "The wildlife reserve is home to several endangered species.",
    "A startup developed an app to help people with disabilities.",
    "The mayor announced plans for a new public transportation system.",
    "A research team found evidence of water on Mars.",
    "The sports team won their championship game in an exciting finish.",
    "A documentary film about climate change received critical acclaim.",
    "The community garden is flourishing thanks to volunteer efforts.",
    "An art gallery displayed works by local artists this weekend.",
    "A historic shipwreck was discovered off the coast.",
    "The orchestra played a symphony by Beethoven to a full house.",
    "A medical breakthrough offers new hope for cancer patients.",
    "The high-speed train service reduced travel time significantly.",
    "A new law was passed to protect endangered wildlife.",
    "The festival featured performances by international musicians.",
    "A children's book was released, inspiring young readers worldwide.",
    "The local market offers a wide variety of organic produce.",
    "A new fitness center opened with state-of-the-art equipment.",
    "The weather forecast predicts heavy snowfall this weekend.",
    "A unique art installation was set up in the city park.",
    "The historic district is known for its beautiful architecture.",
    "A charity organization provided aid to disaster-stricken areas.",
    "The library hosted a reading event for children.",
    "A new app helps users track their carbon footprint.",
    "The film festival showcased independent films from around the world.",
    "A wildlife photographer captured stunning images of a rare bird.",
    "The city introduced a new policy to reduce air pollution.",
    "A culinary school offered classes on international cuisine.",
    "The marathon attracted runners from various countries.",
    "A science fair exhibited innovative projects by students.",
    "The book club discussed a popular novel at their latest meeting.",
    "A new vaccine was developed to combat a viral outbreak.",
    "The theater group performed a modern adaptation of a classic play.",
    "A local band released their debut album to positive reviews.",
    "The national park is a popular destination for hikers and campers.",
    "A new technology aims to make solar energy more efficient.",
    "The charity marathon raised funds for cancer research.",
    "A famous artist donated a painting to the local museum.",
    "The farmers' market features fresh produce from local farms.",
    "A science experiment revealed surprising results about plant growth.",
    "The community center offers after-school programs for children.",
    "A new species of fish was discovered in the deep sea.",
    "The hiking trail offers breathtaking views of the mountains.",
    "A robotics competition challenged students to design innovative robots.",
    "The town square was decorated for the holiday season.",
    "A history professor gave a lecture on ancient civilizations.",
    "The aquarium added a new exhibit featuring marine life from the Arctic.",
    "A famous author gave a talk at the local bookstore.",
    "The cycling race covered challenging terrain and scenic routes.",
    "A local brewery released a new craft beer this month.",
    "The annual fair featured rides, games, and food stalls.",
    "A renewable energy project aims to power the entire community.",
    "The local symphony orchestra played a concert under the stars.",
    "A wildlife documentary highlighted the plight of endangered species."
>>

-----------------------------------------------------------------------------
(* spaCy: nlp(question) as the tagged tokens of the questions modelled *)

Q_sky == "What color is the sky?"
Q_who == "Who?"
Q_punct == "?"

Questions == {Q_sky, Q_who, Q_punct}

Tok(t, p) == [text |-> t, pos_ |-> p]

nlp(question) ==
    CASE question = Q_sky ->
           <<Tok("What", "PRON"), Tok("color", "NOUN"), Tok("is", "AUX"),
             Tok("the", "DET"), Tok("sky", "NOUN"), Tok("?", "PUNCT")>>
      [] question = Q_who -> <<Tok("Who", "PRON"), Tok("?", "PUNCT")>>
      [] question = Q_punct -> <<Tok("?", "PUNCT")>>
      [] OTHER -> <<>>

-----------------------------------------------------------------------------
(* generate_adversarial_sentence *)

IsContentWord(token) == token.pos_ \in {"NOUN", "VERB", "ADJ"}
IsNotPunct(token) == token.pos_ # "PUNCT"

TokenTexts(tokens) == [i \in 1..Len(tokens) |-> tokens[i].text]

\* faulty variant of key_words: the key words are collected in a set, whose
\* iteration order is not the same in every run
key_words_unordered(question) ==
    LET doc == nlp(question)
        content == SelectSeq(doc, IsContentWord)
        kws == IF content = <<>> THEN TokenTexts(SelectSeq(doc, IsNotPunct))
               ELSE TokenTexts(content)
    IN  IF first_run.done THEN [i \in 1..Len(kws) |-> kws[Len(kws) + 1 - i]]
        ELSE kws

\* faulty variant of key_words: every token that is not punctuation is taken,
\* whatever its part of speech
key_words_any_word(question) == TokenTexts(SelectSeq(nlp(question), IsNotPunct))

\* key_words after both passes
key_words(question) ==
    LET doc == nlp(question)
        content == SelectSeq(doc, IsContentWord)
    IN  IF content = <<>> THEN TokenTexts(SelectSeq(doc, IsNotPunct))
        ELSE TokenTexts(content)

\* answer = qa['answers'][0]['text'] if qa['answers'] else ""
chosen_answer(qa) == IF qa.answers # <<>> THEN qa.answers[1].text ELSE ""

\* faulty variant of distracting_sentence: key word and answer change places
distracting_sentence_swapped(key_word, answer) ==
    IF answer # ""
    THEN "However, " \o answer \o " is not related to " \o key_word \o "."
    ELSE "However, " \o key_word \o " is not relevant to this context."

\* faulty variant of distracting_sentence: the answer is never named
distracting_sentence_without_answer(key_word, answer) ==
    "However, " \o key_word \o " is not relevant to this context."

\* the two f-strings
distracting_sentence(key_word, answer) ==
    IF answer # ""
    THEN "However, " \o key_word \o " is not related to " \o answer \o "."
    ELSE "However, " \o key_word \o " is not relevant to this context."

-----------------------------------------------------------------------------
(* Input corpora *)

Alphabet == {"a", "b"}

RECURSIVE StringsOfLen(_)
StringsOfLen(n) ==
    IF n = 0 THEN {""}
    ELSE {s \o c : s \in StringsOfLen(n - 1), c \in Alphabet}

StringsUpTo(n) == UNION {StringsOfLen(k) : k \in 0..n}

Answer(t, s) == [text |-> t, answer_start |-> s]

QA(i, q, ans) ==
    [id |-> i, question |-> q, is_impossible |-> (ans = <<>>), answers |-> ans]

Paragraph(c, qs) == [context |-> c, qas |-> qs]

Article(t, ps) == [title |-> t, paragraphs |-> ps]

Corpus(v, arts) == [version |-> v, data |-> arts]

\* generated: one paragraph with one QAPair with at most one answer, whose
\* answer_start may or may not be where the text is
GeneratedAnswers ==
    {<<>>} \cup {<<Answer(t, s)>> : t \in StringsUpTo(MaxTextLen),
                                    s \in 0..MaxContextLen}

GeneratedParagraphs ==
    {Paragraph(c, <<QA("g1", q, ans)>>) :
        c \in StringsUpTo(MaxContextLen), q \in Questions, ans \in GeneratedAnswers}

GeneratedCorpora ==
    {Corpus("v2.0", <<Article("Generated", <<p>>)>>) : p \in GeneratedParagraphs}

\* hand-built paragraphs
P_sky ==
    Paragraph("The sky is blue.", <<QA("sky1", Q_sky, <<Answer("blue", 12)>>)>>)

P_paris ==
    Paragraph("Paris is the capital of France.",
              <<QA("paris1", Q_who, <<Answer("Paris", 0)>>)>>)

P_mixed ==
    Paragraph("abab",
              <<QA("m1", Q_who, <<Answer("ab", 2), Answer("b", 3)>>),
                QA("m2", Q_sky, <<>>),
                QA("m3", Q_who, <<Answer("ba", 1)>>)>>)

P_lost ==
    Paragraph("abab",
              <<QA("l1", Q_who, <<Answer("b", 3)>>),
                QA("l2", Q_sky, <<Answer("xyz", 0)>>),
                QA("l3", Q_who, <<Answer("a", 0)>>)>>)

P_noqas == Paragraph("ab", <<>>)

\* the scenarios of the specification, each a corpus of its own
ScenarioCorpora ==
    {Corpus("v2.0", <<Article("Sky", <<P_sky>>)>>),
     Corpus("v2.0", <<Article("Paris", <<P_paris>>)>>)}

HandBuiltArticles ==
    {Article("Letters", <<P_mixed, P_sky>>),
     Article("Lost", <<P_lost>>),
     Article("NoQas", <<P_noqas>>),
     Article("NoParagraphs", <<>>)}

RECURSIVE CountParagraphs(_)
CountParagraphs(articles) ==
    IF articles = <<>> THEN 0
    ELSE Len(Head(articles).paragraphs) + CountParagraphs(Tail(articles))

SeqsUpTo(S, n) == UNION {[1..k -> S] : k \in 0..n}

\* hand-built corpora come from an older file version
HandBuiltCorpora ==
    {Corpus("1.1", arts) :
        arts \in {s \in SeqsUpTo(HandBuiltArticles, MaxArticles) :
                    CountParagraphs(s) <= MaxParagraphs}}

Corpora == GeneratedCorpora \cup ScenarioCorpora \cup HandBuiltCorpora

Strategies == {"AddSent", "AddAny"}

-----------------------------------------------------------------------------
(* process_squad_file: the pieces of the loop body *)

\* faulty variant of empty_new_data: the version of the input is copied
empty_new_data_copied == [version |-> input_file.version, data |-> <<>>]

\* new_data = {"version": "v2.0", "data": []}
empty_new_data == [version |-> "v2.0", data |-> <<>>]

\* new_article = {"title": article['title'], "paragraphs": []}
make_new_article(article) == [title |-> article.title, paragraphs |-> <<>>]

\* faulty variant of make_adv_context: the space is left out
make_adv_context_unspaced(context, appended) == context \o appended

\* faulty variant of make_adv_context: the text is put in front
make_adv_context_in_front(context, appended) == appended \o " " \o context

\* adv_context = context + " " + <the appended text>
make_adv_context(context, appended) == context \o " " \o appended

\* if new_qa['answers']:
has_answers(qa) == qa.answers # <<>>

\* faulty variant of new_answer_start: the first occurrence in the second half only
new_answer_start_late(context, text) ==
    str_find(context, text, Len(context) \div 2)

\* answer_start = adv_context.index(answer)
new_answer_start(context, text) == str_index(context, text)

\* faulty variant of set_answer_start: the assignment is lost
set_answer_start_kept(qa, answer_start) == qa

\* faulty variant of set_answer_start: every answer of the QAPair gets the
\* new answer_start
set_answer_start_of_all(qa, answer_start) ==
    [qa EXCEPT !.answers =
        [k \in DOMAIN qa.answers |->
            [qa.answers[k] EXCEPT !.answer_start = answer_start]]]

\* new_qa['answers'][0]['answer_start'] = answer_start, on the answers list
\* that new_qa = qa.copy() (a shallow copy) shares with qa
set_answer_start(qa, answer_start) ==
    [qa EXCEPT !.answers[1].answer_start = answer_start]

\* faulty variant of append_qa: a QAPair without answers is left out
append_qa_skipping(qas, new_qa) ==
    IF has_answers(new_qa) THEN Append(qas, new_qa) ELSE qas

\* faulty variant of append_qa: the QAPair is appended twice
append_qa_twice(qas, new_qa) == Append(Append(qas, new_qa), new_qa)

\* new_qas.append(new_qa)
append_qa(qas, new_qa) == Append(qas, new_qa)

\* new_paragraph = {"context": adv_context, "qas": new_qas}
make_new_paragraph(context, qas) == [context |-> context, qas |-> qas]

\* new_article['paragraphs'].append(new_paragraph)
append_paragraph(article, paragraph) ==
    [article EXCEPT !.paragraphs = Append(@, paragraph)]

\* faulty variant of append_article: the article is put in front
append_article_in_front(corpus, article) ==
    [corpus EXCEPT !.data = <<article>> \o @]

\* new_data['data'].append(new_article)
append_article(corpus, article) == [corpus EXCEPT !.data = Append(@, article)]

\* the article and the paragraph the loops are in, and the next ones
\* key in d, for a dict d
has_key(d, key) == key \in DOMAIN d

CurrentArticle == data.data[article_i]
NextParagraph == CurrentArticle.paragraphs[paragraph_i + 1]
CurrentParagraph == CurrentArticle.paragraphs[paragraph_i]
NextQA == CurrentParagraph.qas[qa_i + 1]

\* no earlier run
NoFirstRun == [done |-> FALSE, draws |-> <<>>, output |-> <<>>]

\* random.choice under a seed: a run that repeats an earlier run under the
\* same seed draws the indices that run drew, in the same order
seeded(drawn) ==
    first_run.done =>
      /\ Len(draws) + Len(drawn) <= Len(first_run.draws)
      /\ drawn = SubSeq(first_run.draws, Len(draws) + 1, Len(draws) + Len(drawn))

\* the span relocation step is not running
RelocIdle ==
    [pc |-> "idle", context |-> "", text |-> "", answer_start |-> 0, result |-> 0]

\* the evaluation notebook is not running
EvalIdle ==
    /\ squad_files = <<>>
    /\ attack_i = 0
    /\ results = <<>>
    /\ all_results = <<>>
    /\ csv_file = <<>>
    /\ eval_article_i = 0
    /\ eval_paragraph_i = 0
    /\ eval_qa_i = 0
    /\ eval_pc = "idle"
    /\ summary = <<>>
    /\ calls = <<>>

\* calculate_f1_score is not running
F1Idle ==
    [pc |-> "idle", prediction |-> "", ground_truth |-> "", result |-> <<>>]

-----------------------------------------------------------------------------
(* The state after json.load and new_data's construction *)

\* the call of the AddSent main cell, and the calls of AddAny's
\* process_squad_file without and with its keyword argument
NoKwargs == <<>>
MainKwargs == << <<"num_sentences", MainNumSentences>> >>

Calls(s) == IF s = "AddAny" THEN {NoKwargs, MainKwargs} ELSE {NoKwargs}

\* faulty variant of bind_num_sentences: the default is the main cell's value
bind_num_sentences_as_main(given) ==
    IF given = <<>> THEN MainNumSentences ELSE given[1][2]

\* def process_squad_file(input_file, output_file, num_sentences=1): the
\* parameter is the keyword argument if there is one, else the default
bind_num_sentences(given) ==
    IF given = <<>> THEN DefaultNumSentences ELSE given[1][2]

\* the state at the start of a run on one of the corpora, output_file
\* holding one of old_outputs
InitWith(corpora, old_outputs) ==
    /\ input_file \in corpora
    /\ strategy \in Strategies
    /\ kwargs \in Calls(strategy)
    /\ num_sentences = bind_num_sentences(kwargs)
    /\ data = input_file
    /\ output_file \in old_outputs
    /\ new_data = empty_new_data
    /\ new_article = [title |-> "", paragraphs |-> <<>>]
    /\ adv_context = ""
    /\ new_qas = <<>>
    /\ choices = <<>>
    /\ article_i = 0
    /\ paragraph_i = 0
    /\ qa_i = 0
    /\ pc = "articles"
    /\ exc = ""
    /\ reloc = RelocIdle
    /\ draws = <<>>
    /\ first_run = NoFirstRun
    /\ EvalIdle
    /\ f1 = F1Idle

Init == InitWith(Corpora, {<<>>})

-----------------------------------------------------------------------------
(* process_squad_file: the steps *)

\* for article in data['data']: the next article
EnterArticle ==
    /\ pc = "articles"
    /\ article_i < Len(data.data)
    /\ has_key(data.data[article_i + 1], "title")
    /\ article_i' = article_i + 1
    /\ new_article' = make_new_article(data.data[article_i + 1])
    /\ paragraph_i' = 0
    /\ pc' = "paragraphs"
    /\ UNCHANGED <<eval_vars, f1, first_run, draws, strategy, kwargs, num_sentences, input_file, output_file, data,
                   new_data, adv_context, new_qas, choices, qa_i, exc, reloc>>

\* AddSent, for paragraph in article['paragraphs']: the adversarial sentence
\* built on a random QAPair and a random key word of its question
AddSentParagraph ==
    /\ pc = "paragraphs"
    /\ strategy = "AddSent"
    /\ has_key(CurrentArticle, "paragraphs")
    /\ paragraph_i < Len(CurrentArticle.paragraphs)
    /\ has_key(NextParagraph, "context")
    /\ has_key(NextParagraph, "qas")
    /\ \E k \in 1..Len(NextParagraph.qas) :
         LET qa == NextParagraph.qas[k]
             kws == IF has_key(qa, "question") THEN key_words(qa.question) ELSE <<>>
         IN  \E w \in 1..Len(kws) :
               /\ seeded(<<k, w>>)
               /\ draws' = draws \o <<k, w>>
               /\ choices' = <<qa, kws[w]>>
               /\ adv_context' =
                    make_adv_context(NextParagraph.context,
                                     distracting_sentence(kws[w], chosen_answer(qa)))
    /\ new_qas' = <<>>
    /\ paragraph_i' = paragraph_i + 1
    /\ qa_i' = 0
    /\ pc' = "qas"
    /\ UNCHANGED <<eval_vars, f1, first_run, strategy, kwargs, num_sentences, input_file, output_file, data,
                   new_data, new_article, article_i, exc, reloc>>

\* faulty variant of AddSentNoQAPair: the paragraph is taken over as it is
AddSentNoQAPairTakenOver ==
    /\ pc = "paragraphs"
    /\ strategy = "AddSent"
    /\ has_key(CurrentArticle, "paragraphs")
    /\ paragraph_i < Len(CurrentArticle.paragraphs)
    /\ has_key(NextParagraph, "context")
    /\ has_key(NextParagraph, "qas")
    /\ NextParagraph.qas = <<>>
    /\ choices' = <<>>
    /\ adv_context' = NextParagraph.context
    /\ new_qas' = <<>>
    /\ paragraph_i' = paragraph_i + 1
    /\ qa_i' = 0
    /\ pc' = "qas"
    /\ UNCHANGED <<eval_vars, f1, first_run, draws, strategy, kwargs, num_sentences, input_file, output_file, data,
                   new_data, new_article, article_i, exc, reloc>>

\* AddSent: random.choice(qas) on a paragraph without QAPairs raises IndexError
AddSentNoQAPair ==
    /\ pc = "paragraphs"
    /\ strategy = "AddSent"
    /\ has_key(CurrentArticle, "paragraphs")
    /\ paragraph_i < Len(CurrentArticle.paragraphs)
    /\ has_key(NextParagraph, "context")
    /\ has_key(NextParagraph, "qas")
    /\ NextParagraph.qas = <<>>
    /\ choices' = <<>>
    /\ pc' = "raised"
    /\ exc' = "IndexError"
    /\ UNCHANGED <<eval_vars, f1, first_run, draws, strategy, kwargs, num_sentences, input_file, output_file, data,
                   new_data, new_article, adv_context, new_qas, article_i,
                   paragraph_i, qa_i, reloc>>

\* AddSent: random.choice(key_words) on an empty key_words raises IndexError
AddSentNoKeyWord ==
    /\ pc = "paragraphs"
    /\ strategy = "AddSent"
    /\ has_key(CurrentArticle, "paragraphs")
    /\ paragraph_i < Len(CurrentArticle.paragraphs)
    /\ has_key(NextParagraph, "context")
    /\ has_key(NextParagraph, "qas")
    /\ \E k \in 1..Len(NextParagraph.qas) :
         /\ has_key(NextParagraph.qas[k], "question")
         /\ key_words(NextParagraph.qas[k].question) = <<>>
         /\ seeded(<<k>>)
         /\ draws' = Append(draws, k)
         /\ choices' = <<NextParagraph.qas[k]>>
    /\ pc' = "raised"
    /\ exc' = "IndexError"
    /\ UNCHANGED <<eval_vars, f1, first_run, strategy, kwargs, num_sentences, input_file, output_file, data,
                   new_data, new_article, adv_context, new_qas, article_i,
                   paragraph_i, qa_i, reloc>>

\* AddAny, for paragraph in article['paragraphs']: num_sentences random
\* members of the pool, joined by spaces
AddAnyParagraph ==
    /\ pc = "paragraphs"
    /\ strategy = "AddAny"
    /\ has_key(CurrentArticle, "paragraphs")
    /\ paragraph_i < Len(CurrentArticle.paragraphs)
    /\ has_key(NextParagraph, "context")
    /\ \E picks \in [1..num_sentences -> 1..MaxChoice] :
         LET sentences == [i \in 1..num_sentences |-> arbitrary_sentences[picks[i]]]
         IN  /\ seeded(picks)
             /\ draws' = draws \o picks
             /\ choices' = sentences
             /\ adv_context' = make_adv_context(NextParagraph.context, join(sentences))
    /\ new_qas' = <<>>
    /\ paragraph_i' = paragraph_i + 1
    /\ qa_i' = 0
    /\ pc' = "qas"
    /\ UNCHANGED <<eval_vars, f1, first_run, strategy, kwargs, num_sentences, input_file, output_file, data,
                   new_data, new_article, article_i, exc, reloc>>

\* for qa in paragraph['qas'], a QAPair with answers whose first text occurs
\* in adv_context: the shared first answer gets its new answer_start
RelocateQA ==
    /\ pc = "qas"
    /\ has_key(CurrentParagraph, "qas")
    /\ qa_i < Len(CurrentParagraph.qas)
    /\ has_answers(NextQA)
    /\ new_answer_start(adv_context, NextQA.answers[1].text) # -1
    /\ LET new_qa ==
             set_answer_start(NextQA,
                 new_answer_start(adv_context, NextQA.answers[1].text))
       IN  /\ data' = [data EXCEPT !.data[article_i].paragraphs[paragraph_i]
                                        .qas[qa_i + 1] = new_qa]
           /\ new_qas' = append_qa(new_qas, new_qa)
    /\ qa_i' = qa_i + 1
    /\ UNCHANGED <<eval_vars, f1, first_run, draws, strategy, kwargs, num_sentences, input_file, output_file, new_data,
                   new_article, adv_context, choices, article_i, paragraph_i,
                   pc, exc, reloc>>

\* a QAPair with answers whose first text does not occur in adv_context:
\* adv_context.index(answer) raises ValueError
LostQA ==
    /\ pc = "qas"
    /\ has_key(CurrentParagraph, "qas")
    /\ qa_i < Len(CurrentParagraph.qas)
    /\ has_answers(NextQA)
    /\ new_answer_start(adv_context, NextQA.answers[1].text) = -1
    /\ pc' = "raised"
    /\ exc' = "ValueError"
    /\ UNCHANGED <<eval_vars, f1, first_run, draws, strategy, kwargs, num_sentences, input_file, output_file, data,
                   new_data, new_article, adv_context, new_qas, choices,
                   article_i, paragraph_i, qa_i, reloc>>

\* a QAPair without answers: its copy is appended as it is
PassQA ==
    /\ pc = "qas"
    /\ has_key(CurrentParagraph, "qas")
    /\ qa_i < Len(CurrentParagraph.qas)
    /\ ~has_answers(NextQA)
    /\ new_qas' = append_qa(new_qas, NextQA)
    /\ qa_i' = qa_i + 1
    /\ UNCHANGED <<eval_vars, f1, first_run, draws, strategy, kwargs, num_sentences, input_file, output_file, data,
                   new_data, new_article, adv_context, choices, article_i,
                   paragraph_i, pc, exc, reloc>>

\* the paragraph's QAPairs are through: the new paragraph joins the article
EndParagraph ==
    /\ pc = "qas"
    /\ has_key(CurrentParagraph, "qas")
    /\ qa_i = Len(CurrentParagraph.qas)
    /\ new_article' =
         append_paragraph(new_article, make_new_paragraph(adv_context, new_qas))
    /\ pc' = "paragraphs"
    /\ UNCHANGED <<eval_vars, f1, first_run, draws, strategy, kwargs, num_sentences, input_file, output_file, data,
                   new_data, adv_context, new_qas, choices, article_i,
                   paragraph_i, qa_i, exc, reloc>>

\* the article's paragraphs are through: the new article joins new_data
EndArticle ==
    /\ pc = "paragraphs"
    /\ has_key(CurrentArticle, "paragraphs")
    /\ paragraph_i = Len(CurrentArticle.paragraphs)
    /\ new_data' = append_article(new_data, new_article)
    /\ pc' = "articles"
    /\ UNCHANGED <<eval_vars, f1, first_run, draws, strategy, kwargs, num_sentences, input_file, output_file, data,
                   new_article, adv_context, new_qas, choices, article_i,
                   paragraph_i, qa_i, exc, reloc>>

\* faulty variant of WriteOutput: the file is written whenever an article is
\* through
WriteOutputEarly ==
    /\ pc = "articles"
    /\ output_file' = <<new_data>>
    /\ pc' = "done"
    /\ UNCHANGED <<eval_vars, f1, first_run, draws, strategy, kwargs, num_sentences, input_file, data, new_data,
                   new_article, adv_context, new_qas, choices, article_i,
                   paragraph_i, qa_i, exc, reloc>>

\* the articles are through: json.dump(new_data, f) into output_file
WriteOutput ==
    /\ pc = "articles"
    /\ article_i = Len(data.data)
    /\ output_file' = <<new_data>>
    /\ pc' = "done"
    /\ UNCHANGED <<eval_vars, f1, first_run, draws, strategy, kwargs, num_sentences, input_file, data, new_data,
                   new_article, adv_context, new_qas, choices, article_i,
                   paragraph_i, qa_i, exc, reloc>>

Next ==
    \/ EnterArticle
    \/ AddSentParagraph
    \/ AddSentNoQAPair
    \/ AddSentNoKeyWord
    \/ AddAnyParagraph
    \/ RelocateQA
    \/ LostQA
    \/ PassQA
    \/ EndParagraph
    \/ EndArticle
    \/ WriteOutput

Spec == Init /\ [][Next]_vars

-----------------------------------------------------------------------------
(* The span relocation step of process_squad_file on its own: a context, an *)
(* answer text and the answer_start the answer came with                    *)

\* Scenario 3: "This is a test." with "This is also a distraction." appended
Scenario3Context == make_adv_context("This is a test.", "This is also a distraction.")

RelocContexts == StringsUpTo(MaxContextLen) \cup {Scenario3Context}

RelocTexts == StringsUpTo(MaxTextLen) \cup {"is"}

RelocInit ==
    /\ reloc \in {[pc |-> "ready", context |-> c, text |-> t,
                   answer_start |-> s, result |-> s] :
                     c \in RelocContexts, t \in RelocTexts, s \in 0..MaxContextLen}
    /\ strategy = "AddSent"
    /\ kwargs = <<>>
    /\ num_sentences = DefaultNumSentences
    /\ input_file = Corpus("v2.0", <<>>)
    /\ data = input_file
    /\ output_file = <<>>
    /\ new_data = empty_new_data
    /\ new_article = [title |-> "", paragraphs |-> <<>>]
    /\ adv_context = ""
    /\ new_qas = <<>>
    /\ choices = <<>>
    /\ article_i = 0
    /\ paragraph_i = 0
    /\ qa_i = 0
    /\ pc = "idle"
    /\ exc = ""
    /\ draws = <<>>
    /\ first_run = NoFirstRun
    /\ EvalIdle
    /\ f1 = F1Idle

\* answer_start = context.index(answer); answer['answer_start'] = answer_start
Relocate ==
    /\ reloc.pc = "ready"
    /\ new_answer_start(reloc.context, reloc.text) # -1
    /\ reloc' = [reloc EXCEPT !.pc = "relocated",
                              !.result = new_answer_start(reloc.context, reloc.text)]
    /\ UNCHANGED <<eval_vars, f1, first_run, draws, strategy, kwargs, num_sentences, input_file, output_file, data,
                   new_data, new_article, adv_context, new_qas, choices,
                   article_i, paragraph_i, qa_i, pc, exc>>

\* context.index(answer) raises ValueError
RelocateRaises ==
    /\ reloc.pc = "ready"
    /\ new_answer_start(reloc.context, reloc.text) = -1
    /\ reloc' = [reloc EXCEPT !.pc = "raised"]
    /\ UNCHANGED <<eval_vars, f1, first_run, draws, strategy, kwargs, num_sentences, input_file, output_file, data,
                   new_data, new_article, adv_context, new_qas, choices,
                   article_i, paragraph_i, qa_i, pc, exc>>

RelocNext ==
    \/ Relocate
    \/ RelocateRaises

RelocSpec == RelocInit /\ [][RelocNext]_vars

-----------------------------------------------------------------------------
(* Vocabulary of the properties *)

Min(a, b) == IF a <= b THEN a ELSE b

\* Python's s[a:b] for 0 <= a <= b
py_slice(s, a, b) == SubSeq(s, Min(a, Len(s)) + 1, Min(b, Len(s)))

\* context[start : start+len(text)] == text
ContainedAt(context, text, start) ==
    py_slice(context, start, start + Len(text)) = text

\* text occurs in context at Python index i
OccursAt(context, text, i) ==
    /\ i + Len(text) <= Len(context)
    /\ SubSeq(context, i + 1, i + Len(text)) = text

\* the corpus written to output_file, and the parts of a corpus
Output == output_file[1]

ArticlesOf(corpus) == DOMAIN corpus.data
ParagraphsOf(corpus, a) == DOMAIN corpus.data[a].paragraphs
QAsOf(corpus, a, p) == DOMAIN corpus.data[a].paragraphs[p].qas
ParagraphAt(corpus, a, p) == corpus.data[a].paragraphs[p]
QAAt(corpus, a, p, q) == corpus.data[a].paragraphs[p].qas[q]

\* the first answer of a QAPair that has answers
FirstAnswer(qa) == qa.answers[1]

\* the output is written and holds the paragraph (a, p) of the input
Written(a, p) ==
    /\ pc = "done"
    /\ a \in ArticlesOf(input_file) /\ a \in ArticlesOf(Output)
    /\ p \in ParagraphsOf(input_file, a) /\ p \in ParagraphsOf(Output, a)

-----------------------------------------------------------------------------
(* Properties *)

\* C1 (context containment): once process_squad_file has written its output,
\* every QAPair of every output paragraph that has answers satisfies
\* context[answer_start : answer_start+len(text)] == text for its first answer.
C1_ContextContainment ==
    pc = "done" =>
      \A a \in ArticlesOf(Output) : \A p \in ParagraphsOf(Output, a) :
        \A q \in QAsOf(Output, a, p) :
          LET qa == QAAt(Output, a, p, q)
          IN  has_answers(qa) =>
                ContainedAt(ParagraphAt(Output, a, p).context,
                            FirstAnswer(qa).text, FirstAnswer(qa).answer_start)

\* C1 witness: an output QAPair with a non-empty answer text whose
\* answer_start was wrong in the input and is now another one.
C1_Witness ==
    \E a \in ArticlesOf(input_file) : \E p \in ParagraphsOf(input_file, a) :
      /\ Written(a, p)
      /\ \E q \in QAsOf(Output, a, p) :
           /\ has_answers(QAAt(Output, a, p, q))
           /\ FirstAnswer(QAAt(Output, a, p, q)).text # ""
           /\ ~ContainedAt(ParagraphAt(input_file, a, p).context,
                           FirstAnswer(QAAt(input_file, a, p, q)).text,
                           FirstAnswer(QAAt(input_file, a, p, q)).answer_start)
           /\ FirstAnswer(QAAt(Output, a, p, q)).answer_start #
                FirstAnswer(QAAt(input_file, a, p, q)).answer_start

\* C2 (the original corpus is never mutated): after the run the in-memory
\* input corpus equals the corpus that was loaded from input_file.
C2_InputNeverMutated ==
    pc \in {"done", "raised"} => data = input_file

\* C3 (an answer text that is not in the new context drops only its QAPair):
\* no run ends by surfacing the error of the failed search; the loop goes on.
C3_LostSpanNeverSurfaces ==
    exc # "ValueError"

\* C4 (idempotence of relocation, as claimed): relocating an answer whose
\* answer_start is correct against the same context returns that answer_start.
C4_RelocationIdempotent ==
    (reloc.pc \in {"relocated", "raised"}
       /\ ContainedAt(reloc.context, reloc.text, reloc.answer_start)) =>
      (reloc.pc = "relocated" /\ reloc.result = reloc.answer_start)

\* C4 (amended): relocating an answer whose answer_start is correct against
\* the same context never fails and returns an answer_start that is not
\* larger; it returns the same answer_start exactly when the text does not
\* occur at a smaller index, that is when answer_start is the first occurrence.
C4_RelocationIdempotentAtFirstOccurrence ==
    (reloc.pc \in {"relocated", "raised"}
       /\ ContainedAt(reloc.context, reloc.text, reloc.answer_start)) =>
      /\ reloc.pc = "relocated"
      /\ reloc.result <= reloc.answer_start
      /\ reloc.result = reloc.answer_start <=>
           \A j \in 0..reloc.answer_start - 1 :
             ~OccursAt(reloc.context, reloc.text, j)

\* C4 witness: a correct, non-empty answer, not at index 0, relocated to the
\* answer_start it had.
C4_Witness ==
    /\ reloc.pc = "relocated"
    /\ reloc.text # ""
    /\ reloc.answer_start > 0
    /\ ContainedAt(reloc.context, reloc.text, reloc.answer_start)
    /\ reloc.result = reloc.answer_start

\* C5 (first occurrence): in the written output, the answer_start of every
\* first answer is the smallest index at which its text occurs in the new
\* context, also when the text occurs several times.
C5_FirstOccurrence ==
    pc = "done" =>
      \A a \in ArticlesOf(Output) : \A p \in ParagraphsOf(Output, a) :
        \A q \in QAsOf(Output, a, p) :
          LET qa == QAAt(Output, a, p, q)
              context == ParagraphAt(Output, a, p).context
          IN  has_answers(qa) =>
                /\ OccursAt(context, FirstAnswer(qa).text, FirstAnswer(qa).answer_start)
                /\ \A j \in 0..FirstAnswer(qa).answer_start - 1 :
                     ~OccursAt(context, FirstAnswer(qa).text, j)

\* C5 witness: an output answer whose non-empty text occurs in the original
\* passage and again inside the appended sentence.
C5_Witness ==
    \E a \in ArticlesOf(input_file) : \E p \in ParagraphsOf(input_file, a) :
      /\ Written(a, p)
      /\ \E q \in QAsOf(Output, a, p) :
           LET qa == QAAt(Output, a, p, q)
               context == ParagraphAt(Output, a, p).context
               original == ParagraphAt(input_file, a, p).context
           IN  /\ has_answers(qa)
               /\ FirstAnswer(qa).text # ""
               /\ FirstAnswer(qa).answer_start + Len(FirstAnswer(qa).text)
                    <= Len(original)
               /\ \E j \in Len(original) + 1..Len(context) :
                    OccursAt(context, FirstAnswer(qa).text, j)

\* C6 (Scenario 3, as claimed): "is" in "This is a test." followed by
\* "This is also a distraction." is relocated to offset 5.
C6_Scenario3Offset5 ==
    (reloc.pc \in {"relocated", "raised"}
       /\ reloc.context = Scenario3Context /\ reloc.text = "is") =>
      (reloc.pc = "relocated" /\ reloc.result = 5)

\* C6 (amended): "is" in "This is a test." followed by "This is also a
\* distraction." is relocated to offset 2 (the "is" inside "This"), which is
\* not an offset inside the appended sentence.
C6_Scenario3Offset2 ==
    (reloc.pc \in {"relocated", "raised"}
       /\ reloc.context = Scenario3Context /\ reloc.text = "is") =>
      /\ reloc.pc = "relocated"
      /\ reloc.result = 2
      /\ reloc.result + Len(reloc.text) <= Len("This is a test.")

\* C6 witness: the relocation of Scenario 3 has run.
C6_Witness ==
    /\ reloc.pc = "relocated"
    /\ reloc.context = Scenario3Context
    /\ reloc.text = "is"

\* Scenario 2: the corpus holds the one paragraph "The sky is blue." with the
\* one QAPair "What color is the sky?" -> {"blue", 12}, AddSent has run and
\* random.choice(key_words) returned "color"
Scenario2Ran ==
    /\ pc = "done"
    /\ strategy = "AddSent"
    /\ input_file.data = <<Article("Sky", <<P_sky>>)>>
    /\ choices = <<P_sky.qas[1], "color">>

\* C7 (Scenario 2, as claimed): the new context is "The sky is blue. However,
\* color is not related to blue." and the answer_start of "blue" is still 12.
C7_Scenario2Start12 ==
    Scenario2Ran =>
      /\ ParagraphAt(Output, 1, 1).context =
           "The sky is blue. However, color is not related to blue."
      /\ FirstAnswer(QAAt(Output, 1, 1, 1)).answer_start = 12

\* C7 (amended): the new context is "The sky is blue. However, color is not
\* related to blue." and the answer_start of "blue" becomes 11, the index at
\* which "blue" starts in "The sky is blue." (the 12 of the input is one off).
C7_Scenario2Start11 ==
    Scenario2Ran =>
      /\ ParagraphAt(Output, 1, 1).context =
           "The sky is blue. However, color is not related to blue."
      /\ FirstAnswer(QAAt(Output, 1, 1, 1)).text = "blue"
      /\ FirstAnswer(QAAt(Output, 1, 1, 1)).answer_start = 11

\* C7 witness: Scenario 2 has run.
C7_Witness == Scenario2Ran

\* C8 (empty-answer passthrough): in the written output a QAPair whose
\* answers list is empty stands at the position it had in the input with
\* every field equal, and the search that can fail is never run for it: a
\* run that ends in ValueError ended on a QAPair that has answers.
C8_EmptyAnswerPassthrough ==
    /\ pc = "done" =>
         \A a \in ArticlesOf(input_file) : \A p \in ParagraphsOf(input_file, a) :
           \A q \in QAsOf(input_file, a, p) :
             ~has_answers(QAAt(input_file, a, p, q)) =>
               /\ a \in ArticlesOf(Output)
               /\ p \in ParagraphsOf(Output, a)
               /\ q \in QAsOf(Output, a, p)
               /\ QAAt(Output, a, p, q) = QAAt(input_file, a, p, q)
    /\ exc = "ValueError" => has_answers(NextQA)

\* C8 witness: the output is written for a paragraph in which a QAPair
\* without answers stands between two QAPairs with answers.
C8_Witness ==
    \E a \in ArticlesOf(input_file) : \E p \in ParagraphsOf(input_file, a) :
      /\ Written(a, p)
      /\ \E q \in QAsOf(input_file, a, p) :
           /\ ~has_answers(QAAt(input_file, a, p, q))
           /\ q - 1 \in QAsOf(input_file, a, p)
           /\ q + 1 \in QAsOf(input_file, a, p)
           /\ has_answers(QAAt(input_file, a, p, q - 1))
           /\ has_answers(QAAt(input_file, a, p, q + 1))

\* C9 (no QAPair gain): an output paragraph never has more QAPairs than the
\* input paragraph it comes from, neither while it is built nor once written.
C9_NoQAPairGain ==
    /\ pc = "qas" => Len(new_qas) <= Len(CurrentParagraph.qas)
    /\ pc = "done" =>
         \A a \in ArticlesOf(Output) : \A p \in ParagraphsOf(Output, a) :
           /\ a \in ArticlesOf(input_file)
           /\ p \in ParagraphsOf(input_file, a)
           /\ Len(ParagraphAt(Output, a, p).qas) <=
                Len(ParagraphAt(input_file, a, p).qas)

\* C9 witness: the output is written for a paragraph with several QAPairs.
C9_Witness ==
    \E a \in ArticlesOf(input_file) : \E p \in ParagraphsOf(input_file, a) :
      /\ Written(a, p)
      /\ Len(ParagraphAt(input_file, a, p).qas) >= 2
      /\ Len(ParagraphAt(Output, a, p).qas) >= 2

\* an output QAPair equals the input QAPair but for the answer_start of its
\* first answer
SameButAnswerStart(in, out) ==
    IF has_answers(in) /\ has_answers(out)
    THEN out = [in EXCEPT !.answers[1].answer_start = FirstAnswer(out).answer_start]
    ELSE out = in

\* C10 (same shape): the written output has the articles of the input in the
\* same order with the same titles, each with as many paragraphs in the same
\* order (each output context starts with the input context of its position),
\* and each QAPair of the output equals the input QAPair of its position but
\* for answer_start.
C10_SameShape ==
    pc = "done" =>
      /\ Len(Output.data) = Len(input_file.data)
      /\ \A a \in ArticlesOf(Output) :
           /\ a \in ArticlesOf(input_file)
           /\ Output.data[a].title = input_file.data[a].title
           /\ Len(Output.data[a].paragraphs) = Len(input_file.data[a].paragraphs)
           /\ \A p \in ParagraphsOf(Output, a) :
                /\ p \in ParagraphsOf(input_file, a)
                /\ py_slice(ParagraphAt(Output, a, p).context, 0,
                            Len(ParagraphAt(input_file, a, p).context) + 1) =
                     ParagraphAt(input_file, a, p).context \o " "
                /\ \A q \in QAsOf(Output, a, p) :
                     /\ q \in QAsOf(input_file, a, p)
                     /\ SameButAnswerStart(QAAt(input_file, a, p, q),
                                           QAAt(Output, a, p, q))

\* C10 witness: the output is written for a corpus of two articles with
\* different titles, one of them with two paragraphs, in which a QAPair got
\* another answer_start.
C10_Witness ==
    /\ pc = "done"
    /\ Len(input_file.data) = 2
    /\ input_file.data[1].title # input_file.data[2].title
    /\ \E a \in ArticlesOf(input_file) : Len(input_file.data[a].paragraphs) = 2
    /\ \E a \in ArticlesOf(input_file) : \E p \in ParagraphsOf(input_file, a) :
         /\ Written(a, p)
         /\ \E q \in QAsOf(Output, a, p) :
              /\ q \in QAsOf(input_file, a, p)
              /\ QAAt(Output, a, p, q) # QAAt(input_file, a, p, q)

\* C11 (output version): the corpus written to output_file carries the
\* version "v2.0", whatever the version of the input corpus is.
C11_OutputVersion ==
    pc = "done" => Output.version = "v2.0"

\* C11 witness: the output is written for an input corpus of another version.
C11_Witness ==
    /\ pc = "done"
    /\ input_file.version # "v2.0"
    /\ Output.data # <<>>

-----------------------------------------------------------------------------
(* The same call of process_squad_file run twice under the same seed *)

\* the first run is over: process_squad_file is called again on the same
\* input_file, with random seeded as it was for the first run
RunAgain ==
    /\ pc = "done"
    /\ ~first_run.done
    /\ first_run' = [done |-> TRUE, draws |-> draws, output |-> output_file]
    /\ draws' = <<>>
    /\ data' = input_file
    /\ new_data' = empty_new_data
    /\ new_article' = [title |-> "", paragraphs |-> <<>>]
    /\ adv_context' = ""
    /\ new_qas' = <<>>
    /\ choices' = <<>>
    /\ article_i' = 0
    /\ paragraph_i' = 0
    /\ qa_i' = 0
    /\ pc' = "articles"
    /\ UNCHANGED <<eval_vars, f1, strategy, kwargs, num_sentences, input_file,
                   output_file, exc, reloc>>

TwoRunNext ==
    \/ EnterArticle
    \/ AddSentParagraph
    \/ AddSentNoQAPair
    \/ AddSentNoKeyWord
    \/ AddAnyParagraph
    \/ RelocateQA
    \/ LostQA
    \/ PassQA
    \/ EndParagraph
    \/ EndArticle
    \/ WriteOutput
    \/ RunAgain

\* the repeated runs are explored on the corpora of at most one article
TwoRunInit == Init /\ Len(input_file.data) <= 1

TwoRunSpec == TwoRunInit /\ [][TwoRunNext]_vars

-----------------------------------------------------------------------------
(* The evaluation notebook: the builtins and library calls it uses *)

\* str.lower() on one character
lower_char(c) ==
    CASE c = "A" -> "a" [] c = "B" -> "b" [] c = "C" -> "c" [] c = "D" -> "d"
      [] c = "E" -> "e" [] c = "F" -> "f" [] c = "G" -> "g" [] c = "H" -> "h"
      [] c = "I" -> "i" [] c = "J" -> "j" [] c = "K" -> "k" [] c = "L" -> "l"
      [] c = "M" -> "m" [] c = "N" -> "n" [] c = "O" -> "o" [] c = "P" -> "p"
      [] c = "Q" -> "q" [] c = "R" -> "r" [] c = "S" -> "s" [] c = "T" -> "t"
      [] c = "U" -> "u" [] c = "V" -> "v" [] c = "W" -> "w" [] c = "X" -> "x"
      [] c = "Y" -> "y" [] c = "Z" -> "z" [] OTHER -> c

\* str.lower()
RECURSIVE lower(_)
lower(s) ==
    IF s = "" THEN ""
    ELSE lower_char(SubSeq(s, 1, 1)) \o lower(SubSeq(s, 2, Len(s)))

\* nltk's word_tokenize on a text of letters and blanks: the maximal runs of
\* letters, in order (word is the run being read)
RECURSIVE split_words(_, _, _)
split_words(text, i, word) ==
    LET closed == IF word = "" THEN <<>> ELSE <<word>>
    IN  IF i > Len(text) THEN closed
        ELSE IF SubSeq(text, i, i) = " "
             THEN closed \o split_words(text, i + 1, "")
             ELSE split_words(text, i + 1, word \o SubSeq(text, i, i))

word_tokenize(text) == split_words(text, 1, "")

\* Counter(tokens)[token]
Counter(tokens, token) == Cardinality({i \in DOMAIN tokens : tokens[i] = token})

RECURSIVE sum_counts(_, _, _)
sum_counts(tokens, a, b) ==
    IF tokens = {} THEN 0
    ELSE LET token == CHOOSE t \in tokens : TRUE
         IN  Min(Counter(a, token), Counter(b, token))
               + sum_counts(tokens \ {token}, a, b)

\* sum((Counter(a) & Counter(b)).values())
num_same(a, b) == sum_counts({a[i] : i \in DOMAIN a}, a, b)

\* a float, kept exact as a fraction in lowest terms
RECURSIVE gcd(_, _)
gcd(a, b) == IF b = 0 THEN a ELSE gcd(b, a % b)

Fraction(n, d) == [num |-> n \div gcd(n, d), den |-> d \div gcd(n, d)]

\* what a division by zero leaves instead of a float
ZeroDivisionError == [num |-> 0, den |-> 0]

float_mul(x, y) ==
    IF ZeroDivisionError \in {x, y} THEN ZeroDivisionError
    ELSE Fraction(x.num * y.num, x.den * y.den)

float_add(x, y) ==
    IF ZeroDivisionError \in {x, y} THEN ZeroDivisionError
    ELSE Fraction(x.num * y.den + y.num * x.den, x.den * y.den)

float_div(x, y) ==
    IF ZeroDivisionError \in {x, y} \/ y.num = 0 THEN ZeroDivisionError
    ELSE Fraction(x.num * y.den, x.den * y.num)

\* faulty variant of calculate_f1_score: no early return for num_same == 0
calculate_f1_score_unguarded(prediction, ground_truth) ==
    LET prediction_tokens == word_tokenize(lower(prediction))
        ground_truth_tokens == word_tokenize(lower(ground_truth))
        same == num_same(prediction_tokens, ground_truth_tokens)
        precision == float_div(Fraction(same, 1), Fraction(Len(prediction_tokens), 1))
        recall == float_div(Fraction(same, 1), Fraction(Len(ground_truth_tokens), 1))
    IN  float_div(float_mul(Fraction(2, 1), float_mul(precision, recall)),
                  float_add(precision, recall))

\* faulty variant of calculate_f1_score: the texts are not lower-cased
calculate_f1_score_cased(prediction, ground_truth) ==
    LET prediction_tokens == word_tokenize(prediction)
        ground_truth_tokens == word_tokenize(ground_truth)
        same == num_same(prediction_tokens, ground_truth_tokens)
        precision == float_div(Fraction(same, 1), Fraction(Len(prediction_tokens), 1))
        recall == float_div(Fraction(same, 1), Fraction(Len(ground_truth_tokens), 1))
    IN  IF same = 0 THEN Fraction(0, 1)
        ELSE float_div(float_mul(Fraction(2, 1), float_mul(precision, recall)),
                       float_add(precision, recall))

calculate_f1_score(prediction, ground_truth) ==
    LET prediction_tokens == word_tokenize(lower(prediction))
        ground_truth_tokens == word_tokenize(lower(ground_truth))
        same == num_same(prediction_tokens, ground_truth_tokens)
        precision == float_div(Fraction(same, 1), Fraction(Len(prediction_tokens), 1))
        recall == float_div(Fraction(same, 1), Fraction(Len(ground_truth_tokens), 1))
    IN  IF same = 0 THEN Fraction(0, 1)
        ELSE float_div(float_mul(Fraction(2, 1), float_mul(precision, recall)),
                       float_add(precision, recall))

-----------------------------------------------------------------------------
(* The evaluation notebook: evaluate_attack and the loop over attack_files *)

\* number of entries of attack_files the explored runs evaluate
MaxAttacks == 2

\* the context[:512] of evaluate_attack
TruncateAt == 512

\* Python's sub in s
str_in(sub, s) == str_find(s, sub, 0) # -1

\* faulty variant of in_truncated_context: the whole context is searched
in_whole_context(ground_truth, context) == str_in(ground_truth, context)

\* faulty variant of in_truncated_context: the last 512 characters are searched
in_context_tail(ground_truth, context) ==
    str_in(ground_truth, py_slice(context, Len(context) - Min(TruncateAt, Len(context)),
                                  Len(context)))

\* not (ground_truth not in context[:512])
in_truncated_context(ground_truth, context) ==
    str_in(ground_truth, py_slice(context, 0, TruncateAt))

\* the (file_path, attack_name) pairs of the evaluation loop
all_attack_files == <<
    [file_path |-> "SQuAD/squad-v2.0-addany.json", attack_name |-> "AddAny"],
    [file_path |-> "SQuAD/squad-v2.0-addsent.json", attack_name |-> "AddSent"],
    [file_path |-> "SQuAD/squad-v2.0-CEIA.json", attack_name |-> "CEIA"],
    [file_path |-> "SQuAD/squad-v2.0-dpaeg.json", attack_name |-> "DPAEG"],
    [file_path |-> "SQuAD/squad-v2.0-textfooler.json", attack_name |-> "TextFooler"] >>

attack_files == SubSeq(all_attack_files, 1, Min(MaxAttacks, Len(all_attack_files)))

\* get_answer(question, context) is the RoBERTa model: any of these answers
PredictedAnswers == {"", "Blue", "the dog"}

get_answer(question, context) == PredictedAnswers

\* nltk's sentence_bleu is a library call: its value is kept as the call
calculate_bleu_score(prediction, ground_truth) ==
    <<"sentence_bleu", <<word_tokenize(lower(ground_truth))>>,
      word_tokenize(lower(prediction))>>

\* the tokens spaCy's parse of a text of letters and blanks tags ROOT: one
\* for a text that has a word, none for a text that has no word
root_tokens(text) == IF word_tokenize(text) = <<>> THEN 0 ELSE 1

count_grammatical_errors(text) == root_tokens(text) - 1

\* the dict evaluate_attack appends to results
make_row(attack_name, question, context, ground_truth, predicted_answer) ==
    [attack |-> attack_name,
     question |-> question,
     context |-> py_slice(context, 0, TruncateAt),
     ground_truth |-> ground_truth,
     predicted_answer |-> predicted_answer,
     exact_match |-> lower(predicted_answer) = lower(ground_truth),
     f1_score |-> calculate_f1_score(predicted_answer, ground_truth),
     bleu_score |-> calculate_bleu_score(predicted_answer, ground_truth),
     grammatical_errors |-> count_grammatical_errors(predicted_answer)]

\* faulty variant of extend: the new rows are put in front
extend_in_front(rows, more) == more \o rows

\* all_results.extend(results)
extend(rows, more) == rows \o more

(* The attack files the evaluation is explored on *)

\* s repeated n times
RECURSIVE Repeat(_, _)
Repeat(s, n) ==
    IF n = 0 THEN ""
    ELSE IF n % 2 = 0 THEN LET half == Repeat(s, n \div 2) IN half \o half
         ELSE s \o Repeat(s, n - 1)

\* a context of 518 characters: "blue" starts at index 510 and crosses the
\* 512th character, "sky" starts at index 515
LongContext == "I saw a dog. " \o Repeat("x", 497) \o "blue sky"

P_long ==
    Paragraph(LongContext,
              <<QA("long1", "What color?", <<Answer("blue", 510)>>),
                QA("long2", "Impossible?", <<>>),
                QA("long3", "Where?", <<Answer("sky", 515), Answer("dog", 8)>>),
                QA("long4", "Nothing?", <<Answer("", 0)>>)>>)

P_dog ==
    Paragraph("I saw a dog.", <<QA("dog1", "What did I see?", <<Answer("a dog", 6)>>)>>)

\* a ground truth that is one blank of the context
P_blank ==
    Paragraph("a dog", <<QA("blank1", "Between?", <<Answer(" ", 1)>>)>>)

\* the data lists an attack file may hold
EvalData ==
    { <<>>,
      <<Article("Sky", <<P_sky>>)>>,
      <<Article("Blank", <<P_blank, P_sky>>)>>,
      <<Article("Long", <<P_long>>), Article("Empty", <<>>),
        Article("Dog", <<P_noqas, P_dog>>)>> }

\* process_squad_file is not running
ProcessIdle ==
    /\ strategy = "AddSent"
    /\ kwargs = <<>>
    /\ num_sentences = DefaultNumSentences
    /\ input_file = Corpus("v2.0", <<>>)
    /\ data = input_file
    /\ output_file = <<>>
    /\ new_data = empty_new_data
    /\ new_article = [title |-> "", paragraphs |-> <<>>]
    /\ adv_context = ""
    /\ new_qas = <<>>
    /\ choices = <<>>
    /\ article_i = 0
    /\ paragraph_i = 0
    /\ qa_i = 0
    /\ pc = "idle"
    /\ exc = ""
    /\ draws = <<>>
    /\ first_run = NoFirstRun

process_vars == <<strategy, kwargs, num_sentences, input_file, output_file, data,
                  new_data, new_article, adv_context, new_qas, choices,
                  article_i, paragraph_i, qa_i, pc, exc, draws, first_run>>

\* the attack files exist, all_results = []
EvalInit ==
    /\ squad_files \in [DOMAIN attack_files -> EvalData]
    /\ attack_i = 0
    /\ results = <<>>
    /\ all_results = <<>>
    /\ csv_file = <<>>
    /\ eval_article_i = 0
    /\ eval_paragraph_i = 0
    /\ eval_qa_i = 0
    /\ eval_pc = "attacks"
    /\ summary = <<>>
    /\ calls = <<>>
    /\ ProcessIdle
    /\ reloc = RelocIdle
    /\ f1 = F1Idle

\* the data, article, paragraph and QAPair evaluate_attack is at
EvalDataNow == squad_files[attack_i]
EvalArticle == EvalDataNow[eval_article_i]
EvalParagraph == EvalArticle.paragraphs[eval_paragraph_i]
EvalNextQA == EvalParagraph.qas[eval_qa_i + 1]

\* for file_path, attack_name in attack_files: data = load_squad_data(file_path)
\* and evaluate_attack(data, attack_name) starts with results = []
LoadAttack ==
    /\ eval_pc = "attacks"
    /\ attack_i < Len(attack_files)
    /\ attack_i' = attack_i + 1
    /\ results' = <<>>
    /\ eval_article_i' = 0
    /\ eval_pc' = "articles"
    /\ UNCHANGED <<summary, squad_files, all_results, csv_file, eval_paragraph_i,
                   eval_qa_i, calls, process_vars, reloc, f1>>

\* for article in data
EvalEnterArticle ==
    /\ eval_pc = "articles"
    /\ eval_article_i < Len(EvalDataNow)
    /\ eval_article_i' = eval_article_i + 1
    /\ eval_paragraph_i' = 0
    /\ eval_pc' = "paragraphs"
    /\ UNCHANGED <<summary, squad_files, attack_i, results, all_results, csv_file,
                   eval_qa_i, calls, process_vars, reloc, f1>>

\* for paragraph in article['paragraphs']: context = paragraph['context']
EvalEnterParagraph ==
    /\ eval_pc = "paragraphs"
    /\ eval_paragraph_i < Len(EvalArticle.paragraphs)
    /\ eval_paragraph_i' = eval_paragraph_i + 1
    /\ eval_qa_i' = 0
    /\ eval_pc' = "qas"
    /\ UNCHANGED <<summary, squad_files, attack_i, results, all_results, csv_file,
                   eval_article_i, calls, process_vars, reloc, f1>>

\* for qa in paragraph['qas']: qa['answers'] is empty
EvalUnanswered ==
    /\ eval_pc = "qas"
    /\ eval_qa_i < Len(EvalParagraph.qas)
    /\ EvalNextQA.answers = <<>>
    /\ eval_qa_i' = eval_qa_i + 1
    /\ UNCHANGED <<summary, squad_files, attack_i, results, all_results, csv_file,
                   eval_article_i, eval_paragraph_i, eval_pc, calls,
                   process_vars, reloc, f1>>

\* for qa in paragraph['qas']: get_answer is called, then the ground truth
\* is not in context[:512]: continue
EvalSkipped ==
    /\ eval_pc = "qas"
    /\ eval_qa_i < Len(EvalParagraph.qas)
    /\ EvalNextQA.answers # <<>>
    /\ LET context == EvalParagraph.context
           question == EvalNextQA.question
           ground_truth == EvalNextQA.answers[1].text
       IN  /\ \E predicted_answer \in get_answer(question, context) :
                calls' = Append(calls, <<question, context>>)
           /\ ~in_truncated_context(ground_truth, context)
    /\ eval_qa_i' = eval_qa_i + 1
    /\ UNCHANGED <<summary, squad_files, attack_i, results, all_results, csv_file,
                   eval_article_i, eval_paragraph_i, eval_pc,
                   process_vars, reloc, f1>>

\* for qa in paragraph['qas']: get_answer is called, the ground truth is in
\* context[:512], the metrics are computed and the row is appended
EvalAppendRow ==
    /\ eval_pc = "qas"
    /\ eval_qa_i < Len(EvalParagraph.qas)
    /\ EvalNextQA.answers # <<>>
    /\ LET context == EvalParagraph.context
           question == EvalNextQA.question
           ground_truth == EvalNextQA.answers[1].text
       IN  /\ in_truncated_context(ground_truth, context)
           /\ \E predicted_answer \in get_answer(question, context) :
                /\ calls' = Append(calls, <<question, context>>)
                /\ results' = Append(results,
                                make_row(attack_files[attack_i].attack_name,
                                         question, context, ground_truth,
                                         predicted_answer))
    /\ eval_qa_i' = eval_qa_i + 1
    /\ UNCHANGED <<summary, squad_files, attack_i, all_results, csv_file,
                   eval_article_i, eval_paragraph_i, eval_pc,
                   process_vars, reloc, f1>>

\* the QAPairs of the paragraph are exhausted
EvalEndParagraph ==
    /\ eval_pc = "qas"
    /\ eval_qa_i = Len(EvalParagraph.qas)
    /\ eval_pc' = "paragraphs"
    /\ UNCHANGED <<summary, squad_files, attack_i, results, all_results, csv_file,
                   eval_article_i, eval_paragraph_i, eval_qa_i, calls,
                   process_vars, reloc, f1>>

\* the paragraphs of the article are exhausted
EvalEndArticle ==
    /\ eval_pc = "paragraphs"
    /\ eval_paragraph_i = Len(EvalArticle.paragraphs)
    /\ eval_pc' = "articles"
    /\ UNCHANGED <<summary, squad_files, attack_i, results, all_results, csv_file,
                   eval_article_i, eval_paragraph_i, eval_qa_i, calls,
                   process_vars, reloc, f1>>

\* return results; all_results.extend(results)
ReturnResults ==
    /\ eval_pc = "articles"
    /\ eval_article_i = Len(EvalDataNow)
    /\ all_results' = extend(all_results, results)
    /\ eval_pc' = "attacks"
    /\ UNCHANGED <<summary, squad_files, attack_i, results, csv_file, eval_article_i,
                   eval_paragraph_i, eval_qa_i, calls, process_vars, reloc, f1>>

\* df = pd.DataFrame(all_results); df.to_csv(...)
SaveResults ==
    /\ eval_pc = "attacks"
    /\ attack_i = Len(attack_files)
    /\ csv_file' = <<all_results>>
    /\ eval_pc' = "saved"
    /\ UNCHANGED <<summary, squad_files, attack_i, results, all_results,
                   eval_article_i, eval_paragraph_i, eval_qa_i, calls,
                   process_vars, reloc, f1>>

\* faulty variant of group: the rows are not told apart by attack
group_all(rows, attack_name) == rows

\* the rows of one attack: a group of df.groupby('attack')
group(rows, attack_name) ==
    SelectSeq(rows, LAMBDA row : row.attack = attack_name)

\* the keys of the groups in sorted order; the names of attack_files are
\* listed in that order
group_keys(rows) ==
    LET names == [k \in DOMAIN all_attack_files |-> all_attack_files[k].attack_name]
    IN  SelectSeq(names, LAMBDA name : \E i \in DOMAIN rows : rows[i].attack = name)

RECURSIVE float_sum(_)
float_sum(values) ==
    IF values = <<>> THEN Fraction(0, 1)
    ELSE float_add(Head(values), float_sum(Tail(values)))

\* 'mean' of a column of numbers
mean(values) == float_div(float_sum(values), Fraction(Len(values), 1))

\* the row of the summary for one group; True counts 1 and False 0, and the
\* mean of the bleu scores is kept as the call on its values
summary_row(attack_name, rows) ==
    [attack |-> attack_name,
     exact_match |-> mean([i \in DOMAIN rows |->
                            Fraction(IF rows[i].exact_match THEN 1 ELSE 0, 1)]),
     f1_score |-> mean([i \in DOMAIN rows |-> rows[i].f1_score]),
     bleu_score |-> <<"mean", [i \in DOMAIN rows |-> rows[i].bleu_score]>>,
     grammatical_errors |-> mean([i \in DOMAIN rows |->
                                   Fraction(rows[i].grammatical_errors, 1)]),
     sample_size |-> Len(rows)]

\* df.groupby('attack').agg({...})
summarize(rows) ==
    LET keys == group_keys(rows)
    IN  [k \in DOMAIN keys |-> summary_row(keys[k], group(rows, keys[k]))]

\* the summary cell on a result table that has rows
Summarize ==
    /\ eval_pc = "saved"
    /\ all_results # <<>>
    /\ summary' = <<summarize(all_results)>>
    /\ eval_pc' = "summarized"
    /\ UNCHANGED <<squad_files, attack_i, results, all_results, csv_file,
                   eval_article_i, eval_paragraph_i, eval_qa_i, calls,
                   process_vars, reloc, f1>>

\* the summary cell on an empty result table: pd.DataFrame([]) has no
\* column 'attack' and df.groupby('attack') raises KeyError
SummarizeEmpty ==
    /\ eval_pc = "saved"
    /\ all_results = <<>>
    /\ eval_pc' = "KeyError"
    /\ UNCHANGED <<summary, squad_files, attack_i, results, all_results, csv_file,
                   eval_article_i, eval_paragraph_i, eval_qa_i, calls,
                   process_vars, reloc, f1>>

EvalNext ==
    \/ LoadAttack
    \/ EvalEnterArticle
    \/ EvalEnterParagraph
    \/ EvalUnanswered
    \/ EvalSkipped
    \/ EvalAppendRow
    \/ EvalEndParagraph
    \/ EvalEndArticle
    \/ ReturnResults
    \/ SaveResults
    \/ Summarize
    \/ SummarizeEmpty

EvalSpec == EvalInit /\ [][EvalNext]_vars

-----------------------------------------------------------------------------
(* Vocabulary of the evaluation properties *)

\* the first answer text of qa lies wholly inside the first 512 characters
\* of context
Survives(context, qa) ==
    /\ qa.answers # <<>>
    /\ \E i \in 0..TruncateAt :
         /\ i + Len(qa.answers[1].text) <= TruncateAt
         /\ OccursAt(context, qa.answers[1].text, i)

\* the rows produced so far, those of the attack under evaluation included
Rows ==
    IF eval_pc \in {"articles", "paragraphs", "qas"}
    THEN all_results \o results ELSE all_results

\* xs is a prefix of ys
IsPrefix(xs, ys) == Len(xs) <= Len(ys) /\ xs = SubSeq(ys, 1, Len(xs))

-----------------------------------------------------------------------------
(* C13: in evaluate_attack, each QAPair the loop takes adds exactly one row *)
(* when its answers list is non-empty and its first answer text occurs      *)
(* within the first 512 characters of the context; any other QAPair (empty  *)
(* answers list, or text not within the first 512 characters) adds no row   *)
(* and the loop goes on to the next QAPair without an error.                *)

C13_SkipRule ==
    [][(eval_pc = "qas" /\ eval_qa_i' = eval_qa_i + 1) =>
         /\ eval_pc' = "qas"
         /\ IF Survives(EvalParagraph.context, EvalNextQA)
            THEN /\ Len(results') = Len(results) + 1
                 /\ IsPrefix(results, results')
                 /\ results'[Len(results')].question = EvalNextQA.question
            ELSE results' = results]_vars

\* the four QAPairs of the long paragraph are taken: two were skipped for the
\* 512 characters, one had no answers, one gave a row
C13_Witness ==
    /\ eval_pc = "qas"
    /\ EvalParagraph = P_long
    /\ eval_qa_i = 4
    /\ Len(results) = 1
    /\ results[1].question = "Nothing?"

-----------------------------------------------------------------------------
(* C14: evaluate_attack appends one row per surviving QAPair in processing  *)
(* order (article, paragraph, QAPair), each with the attack name given, the *)
(* first answer text as ground truth and the first 512 characters of the    *)
(* context; a row once appended is never changed or removed, and the rows   *)
(* of successive attacks follow each other in the order of attack_files.    *)

\* the sequences of a sequence of sequences, one after the other
RECURSIVE Flat(_)
Flat(seqs) == IF seqs = <<>> THEN <<>> ELSE Head(seqs) \o Flat(Tail(seqs))

\* what a row says of the QAPair it was made for
RowKey(row) ==
    [attack |-> row.attack, question |-> row.question,
     context |-> row.context, ground_truth |-> row.ground_truth]

RowKeys(rows) == [i \in DOMAIN rows |-> RowKey(rows[i])]

ExpectedOfParagraph(attack_name, paragraph) ==
    Flat([q \in DOMAIN paragraph.qas |->
            IF Survives(paragraph.context, paragraph.qas[q])
            THEN << [attack |-> attack_name,
                     question |-> paragraph.qas[q].question,
                     context |-> SubSeq(paragraph.context, 1,
                                        Min(TruncateAt, Len(paragraph.context))),
                     ground_truth |-> paragraph.qas[q].answers[1].text] >>
            ELSE <<>>])

ExpectedOfData(attack_name, data_list) ==
    Flat([a \in DOMAIN data_list |->
            Flat([p \in DOMAIN data_list[a].paragraphs |->
                    ExpectedOfParagraph(attack_name, data_list[a].paragraphs[p])])])

\* the expected rows of the data lists of EvalData, as a table
ExpectedOfEvalData ==
    [k \in DOMAIN attack_files, d \in EvalData |->
        ExpectedOfData(attack_files[k].attack_name, d)]

ExpectedOfAttack(k) ==
    IF squad_files[k] \in EvalData THEN ExpectedOfEvalData[k, squad_files[k]]
    ELSE ExpectedOfData(attack_files[k].attack_name, squad_files[k])

ExpectedRows == Flat([k \in DOMAIN attack_files |-> ExpectedOfAttack(k)])

C14_RowsInOrderWriteOnce ==
    /\ [](IsPrefix(RowKeys(Rows), ExpectedRows))
    /\ [](eval_pc = "saved" => RowKeys(csv_file[1]) = ExpectedRows)
    /\ [][IsPrefix(Rows, Rows')]_vars

\* the saved table holds the rows of two attacks, the first attack's first,
\* and a context cut to 512 characters
C14_Witness ==
    /\ eval_pc = "saved"
    /\ Len(csv_file[1]) >= 4
    /\ csv_file[1][1].attack = "AddAny"
    /\ csv_file[1][Len(csv_file[1])].attack = "AddSent"
    /\ csv_file[1][1].context = SubSeq(LongContext, 1, 512)
    /\ csv_file[1][2].ground_truth = "a dog"

-----------------------------------------------------------------------------
(* C16: in evaluate_attack the predictor is called only for the QAPairs     *)
(* that pass the 512-character check: the number of get_answer calls equals *)
(* the number of rows produced.                                             *)

C16_PredictorCallsEqualRows == Len(calls) = Len(Rows)

-----------------------------------------------------------------------------
(* calculate_f1_score on its own: a prediction and a ground truth           *)

\* most words of a generated prediction or ground truth
MaxTokens == 2

F1Words == {"the", "a", "dog"}

\* the texts of at most n words of F1Words, separated by one blank
RECURSIVE TextsOfWords(_)
TextsOfWords(n) ==
    IF n = 0 THEN {""}
    ELSE LET shorter == TextsOfWords(n - 1)
         IN  shorter \cup F1Words
               \cup {t \o " " \o w : t \in shorter \ {""}, w \in F1Words}

F1Texts == TextsOfWords(MaxTokens) \cup {" ", "The Dog", "A  dog "}

F1Init ==
    /\ f1 \in {[pc |-> "ready", prediction |-> p, ground_truth |-> g,
                result |-> <<>>] : p \in F1Texts, g \in F1Texts}
    /\ EvalIdle
    /\ ProcessIdle
    /\ reloc = RelocIdle

\* f1_score = calculate_f1_score(predicted_answer, ground_truth)
CalculateF1 ==
    /\ f1.pc = "ready"
    /\ f1' = [f1 EXCEPT !.pc = "returned",
                        !.result = calculate_f1_score(f1.prediction,
                                                      f1.ground_truth)]
    /\ UNCHANGED <<eval_vars, process_vars, reloc>>

F1Next == CalculateF1

F1Spec == F1Init /\ [][F1Next]_vars

-----------------------------------------------------------------------------
(* C15: calculate_f1_score returns 0 when prediction and ground truth share *)
(* no token, without dividing by zero, also when a token list is empty;     *)
(* otherwise it returns 2*P*R/(P+R), P = num_same/|prediction tokens| and   *)
(* R = num_same/|ground-truth tokens|, num_same the size of the multiset    *)
(* intersection; "the dog" against "a dog" gives 1/2.                       *)

\* the pairs of positions of a and b that hold the same token, no position
\* used twice: the largest such matching has the size of the intersection
Matchings(a, b) ==
    {m \in SUBSET ((DOMAIN a) \X (DOMAIN b)) :
        /\ \A x \in m : a[x[1]] = b[x[2]]
        /\ \A x, y \in m : (x[1] = y[1] \/ x[2] = y[2]) => x = y}

Shared(a, b) ==
    CHOOSE n \in 0..Len(a) :
        /\ \E m \in Matchings(a, b) : Cardinality(m) = n
        /\ \A m \in Matchings(a, b) : Cardinality(m) <= n

C15_F1Score ==
    f1.pc = "returned" =>
      LET p == word_tokenize(lower(f1.prediction))
          g == word_tokenize(lower(f1.ground_truth))
          n == Shared(p, g)
      IN  /\ f1.result # ZeroDivisionError
          /\ f1.result.den > 0
          /\ n = 0 => f1.result.num = 0
          \* 2PR/(P+R) with P = n/|p| and R = n/|g| is 2n/(|p|+|g|)
          /\ n > 0 => f1.result.num * (Len(p) + Len(g)) = 2 * n * f1.result.den
          /\ (f1.prediction = "the dog" /\ f1.ground_truth = "a dog") =>
               /\ n = 1
               /\ 2 * f1.result.num = f1.result.den

\* Scenario 5 has been computed
C15_Witness ==
    /\ f1.pc = "returned"
    /\ f1.prediction = "the dog"
    /\ f1.ground_truth = "a dog"
    /\ f1.result = [num |-> 1, den |-> 2]

\* a token-free prediction or ground truth has been scored
C15_WitnessEmptyTokens ==
    /\ f1.pc = "returned"
    /\ f1.prediction = " "
    /\ f1.ground_truth = "a dog"
    /\ f1.result = [num |-> 0, den |-> 1]

-----------------------------------------------------------------------------
(* C17: relocation is applied only to answers whose text is non-empty: in   *)
(* the written output a QAPair whose first answer has the empty string as   *)
(* text stands with the answer_start it had in the input.                   *)

C17_EmptyTextNotRelocated ==
    pc = "done" =>
      \A a \in ArticlesOf(input_file) : \A p \in ParagraphsOf(input_file, a) :
        \A q \in QAsOf(input_file, a, p) :
          (/\ has_answers(QAAt(input_file, a, p, q))
           /\ FirstAnswer(QAAt(input_file, a, p, q)).text = "") =>
            /\ a \in ArticlesOf(Output)
            /\ p \in ParagraphsOf(Output, a)
            /\ q \in QAsOf(Output, a, p)
            /\ has_answers(QAAt(Output, a, p, q))
            /\ FirstAnswer(QAAt(Output, a, p, q)).answer_start
                 = FirstAnswer(QAAt(input_file, a, p, q)).answer_start

-----------------------------------------------------------------------------
(* C18: AddAny builds the new context of a paragraph as the original        *)
(* context, one space, then the N = num_sentences selected sentences joined *)
(* by single spaces; every selected sentence is a member of the fixed pool  *)
(* and the same sentence may be selected more than once. Built the same way *)
(* with the single sentence "X", "Paris is the capital of France." becomes  *)
(* "Paris is the capital of France. X".                                     *)

\* the sentences of the pool
Pool == {arbitrary_sentences[i] : i \in DOMAIN arbitrary_sentences}

\* xs, each followed by sep, one after the other
RECURSIVE EachFollowedBy(_, _)
EachFollowedBy(xs, sep) ==
    IF xs = <<>> THEN ""
    ELSE Head(xs) \o sep \o EachFollowedBy(Tail(xs), sep)

\* context, then each sentence preceded by one space
ContextThen(context, sentences) ==
    LET text == context \o " " \o EachFollowedBy(sentences, " ")
    IN  SubSeq(text, 1, Len(text) - 1)

\* text is n sentences of the pool, each preceded by one space
RECURSIVE PoolSentences(_, _)
PoolSentences(text, n) ==
    IF n = 0 THEN text = ""
    ELSE \E s \in Pool :
           /\ Len(s) + 1 <= Len(text)
           /\ SubSeq(text, 1, Len(s) + 1) = " " \o s
           /\ PoolSentences(SubSeq(text, Len(s) + 2, Len(text)), n - 1)

C18_AddAnyContext ==
    /\ (strategy = "AddAny" /\ pc = "qas") =>
         /\ Len(choices) = num_sentences
         /\ \A i \in DOMAIN choices : choices[i] \in Pool
         /\ adv_context = ContextThen(CurrentParagraph.context, choices)
    /\ (strategy = "AddAny" /\ pc = "done") =>
         \A a \in ArticlesOf(Output) : \A p \in ParagraphsOf(Output, a) :
           LET context == ParagraphAt(input_file, a, p).context
               new_context == ParagraphAt(Output, a, p).context
           IN  /\ Len(context) <= Len(new_context)
               /\ SubSeq(new_context, 1, Len(context)) = context
               /\ PoolSentences(SubSeq(new_context, Len(context) + 1,
                                       Len(new_context)), num_sentences)
    /\ make_adv_context("Paris is the capital of France.", join(<<"X">>))
         = "Paris is the capital of France. X"

\* AddAny has written the Paris paragraph with the same sentence twice
C18_Witness ==
    /\ strategy = "AddAny"
    /\ num_sentences = 2
    /\ Written(1, 1)
    /\ ParagraphAt(input_file, 1, 1).context = "Paris is the capital of France."
    /\ ParagraphAt(Output, 1, 1).context
         = "Paris is the capital of France. " \o arbitrary_sentences[1]
             \o " " \o arbitrary_sentences[1]

-----------------------------------------------------------------------------
(* C19: AddSent generates its sentence once per paragraph, on one QAPair    *)
(* chosen from the paragraph, and appends that one sentence after a single  *)
(* space to the context all QAPairs of the paragraph share: "However, K is  *)
(* not related to A." when the chosen QAPair has a non-empty first answer   *)
(* text A, otherwise "However, K is not relevant to this context."; K is a  *)
(* token of the chosen question tagged NOUN, VERB or ADJ or, only if the    *)
(* question has no such token, any token of it that is not punctuation.     *)

\* the tokens K may be for a question
AllowedKeyWords(question) ==
    LET doc == nlp(question)
        tagged(tags) == {doc[i].text : i \in {j \in DOMAIN doc : doc[j].pos_ \in tags}}
        content == tagged({"NOUN", "VERB", "ADJ"})
    IN  IF content # {} THEN content
        ELSE {doc[i].text : i \in {j \in DOMAIN doc : doc[j].pos_ # "PUNCT"}}

\* the sentence for key word K and the chosen QAPair
SentenceFor(K, qa) ==
    IF qa.answers # <<>> /\ qa.answers[1].text # ""
    THEN "However, " \o K \o " is not related to " \o qa.answers[1].text \o "."
    ELSE "However, " \o K \o " is not relevant to this context."

\* new_context is context with one sentence built on a QAPair of qas
OneSentenceAdded(context, qas, new_context) ==
    \E q \in DOMAIN qas : \E K \in AllowedKeyWords(qas[q].question) :
      new_context = context \o " " \o SentenceFor(K, qas[q])

\* the paragraphs process_squad_file has taken so far
RECURSIVE ParagraphsTaken(_)
ParagraphsTaken(n) ==
    IF n = 0 THEN 0
    ELSE IF n = article_i /\ pc \in {"paragraphs", "qas"}
         THEN paragraph_i + ParagraphsTaken(n - 1)
         ELSE Len(data.data[n].paragraphs) + ParagraphsTaken(n - 1)

C19_OneSentencePerParagraph ==
    strategy = "AddSent" =>
      /\ pc = "qas" =>
           /\ \E q \in DOMAIN CurrentParagraph.qas :
                /\ choices[1].id = CurrentParagraph.qas[q].id
                /\ choices[2] \in AllowedKeyWords(CurrentParagraph.qas[q].question)
                /\ adv_context = CurrentParagraph.context \o " "
                                   \o SentenceFor(choices[2], CurrentParagraph.qas[q])
      \* one generation is two draws: the QAPair and the key word
      /\ pc \in {"articles", "paragraphs", "qas", "done"} =>
           Len(draws) = 2 * ParagraphsTaken(article_i)
      /\ pc = "done" =>
           \A a \in ArticlesOf(Output) : \A p \in ParagraphsOf(Output, a) :
             /\ OneSentenceAdded(ParagraphAt(input_file, a, p).context,
                                 ParagraphAt(input_file, a, p).qas,
                                 ParagraphAt(Output, a, p).context)
             /\ Len(ParagraphAt(Output, a, p).qas)
                  = Len(ParagraphAt(input_file, a, p).qas)

\* AddSent has written a paragraph whose question has no NOUN, VERB or ADJ
\* token, and one whose sentence is built on a QAPair without answers
C19_Witness ==
    /\ strategy = "AddSent"
    /\ Written(1, 1) /\ Written(1, 2)
    /\ ParagraphAt(input_file, 1, 1) = P_mixed
    /\ ParagraphAt(Output, 1, 1).context
         = "abab However, color is not relevant to this context."
    /\ ParagraphAt(Output, 1, 2).context
         = "The sky is blue. However, sky is not related to blue."

\* AddSent has written the paragraph whose only key word comes from the
\* second pass
C19_WitnessFallback ==
    /\ strategy = "AddSent"
    /\ Written(1, 1)
    /\ ParagraphAt(Output, 1, 1).context
         = "Paris is the capital of France. However, Who is not related to Paris."

-----------------------------------------------------------------------------
(* C20: when the question of the chosen QAPair has no key word after both   *)
(* passes (no NOUN, VERB or ADJ token and no token that is not punctuation) *)
(* AddSent ends with an EmptyKeyWordSetError of its own, raised before the  *)
(* key word is chosen, not with the error of choosing from an empty list.   *)

C20_EmptyKeyWordSetError ==
    (/\ strategy = "AddSent"
     /\ pc = "raised"
     /\ Len(choices) = 1
     /\ AllowedKeyWords(choices[1].question) = {}) =>
       exc = "EmptyKeyWordSetError"

-----------------------------------------------------------------------------
(* process_squad_file on corpora that lack a key, with or without an       *)
(* output file left by an earlier run                                       *)

\* the articles and paragraphs that lack a key
A_notitle == [paragraphs |-> <<P_sky>>]
A_noparagraphs == [title |-> "NoParagraphsKey"]
P_nocontext == [qas |-> P_sky.qas]
P_noqaskey == [context |-> "The sky is blue."]
P_noquestion ==
    Paragraph("The sky is blue.",
              <<[id |-> "nq1", answers |-> <<Answer("blue", 11)>>,
                 is_impossible |-> FALSE]>>)

MalformedArticles ==
    {A_notitle, A_noparagraphs, Article("NoContext", <<P_sky, P_nocontext>>),
     Article("NoQas", <<P_noqaskey>>), Article("NoQuestion", <<P_noquestion>>)}

\* a malformed article alone, and after a well-formed one
MalformedCorpora ==
    {Corpus("v2.0", <<a>>) : a \in MalformedArticles}
      \cup {Corpus("v2.0", <<Article("Sky", <<P_sky>>), a>>) : a \in MalformedArticles}

FormatCorpora == MalformedCorpora \cup {c \in Corpora : Len(c.data) <= 1}

\* output_file does not exist, or holds the corpus an earlier run wrote
OldOutput == Corpus("v2.0", <<Article("Old", <<>>)>>)
OldOutputs == {<<>>, <<OldOutput>>}

FormatInit == InitWith(FormatCorpora, OldOutputs)

\* new_article = {"title": article['title'], ...}: article has no 'title'
TitleKeyError ==
    /\ pc = "articles"
    /\ article_i < Len(data.data)
    /\ ~has_key(data.data[article_i + 1], "title")
    /\ pc' = "raised"
    /\ exc' = "KeyError"
    /\ UNCHANGED <<eval_vars, f1, first_run, draws, strategy, kwargs, num_sentences,
                   input_file, output_file, data, new_data, new_article,
                   adv_context, new_qas, choices, article_i, paragraph_i,
                   qa_i, reloc>>

\* for paragraph in article['paragraphs']: article has no 'paragraphs'
ParagraphsKeyError ==
    /\ pc = "paragraphs"
    /\ ~has_key(CurrentArticle, "paragraphs")
    /\ pc' = "raised"
    /\ exc' = "KeyError"
    /\ UNCHANGED <<eval_vars, f1, first_run, draws, strategy, kwargs, num_sentences,
                   input_file, output_file, data, new_data, new_article,
                   adv_context, new_qas, choices, article_i, paragraph_i,
                   qa_i, reloc>>

\* context = paragraph['context']: paragraph has no 'context'
ContextKeyError ==
    /\ pc = "paragraphs"
    /\ has_key(CurrentArticle, "paragraphs")
    /\ paragraph_i < Len(CurrentArticle.paragraphs)
    /\ ~has_key(NextParagraph, "context")
    /\ pc' = "raised"
    /\ exc' = "KeyError"
    /\ UNCHANGED <<eval_vars, f1, first_run, draws, strategy, kwargs, num_sentences,
                   input_file, output_file, data, new_data, new_article,
                   adv_context, new_qas, choices, article_i, paragraph_i,
                   qa_i, reloc>>

\* AddSent, generate_adversarial_sentence(paragraph['qas']): paragraph has no
\* 'qas'
AddSentQasKeyError ==
    /\ pc = "paragraphs"
    /\ strategy = "AddSent"
    /\ has_key(CurrentArticle, "paragraphs")
    /\ paragraph_i < Len(CurrentArticle.paragraphs)
    /\ has_key(NextParagraph, "context")
    /\ ~has_key(NextParagraph, "qas")
    /\ pc' = "raised"
    /\ exc' = "KeyError"
    /\ UNCHANGED <<eval_vars, f1, first_run, draws, strategy, kwargs, num_sentences,
                   input_file, output_file, data, new_data, new_article,
                   adv_context, new_qas, choices, article_i, paragraph_i,
                   qa_i, reloc>>

\* AddAny, for qa in paragraph['qas'], after adv_context is built: paragraph
\* has no 'qas'
AddAnyQasKeyError ==
    /\ pc = "qas"
    /\ ~has_key(CurrentParagraph, "qas")
    /\ pc' = "raised"
    /\ exc' = "KeyError"
    /\ UNCHANGED <<eval_vars, f1, first_run, draws, strategy, kwargs, num_sentences,
                   input_file, output_file, data, new_data, new_article,
                   adv_context, new_qas, choices, article_i, paragraph_i,
                   qa_i, reloc>>

\* AddSent, question = qa['question'] on the chosen QAPair: it has no
\* 'question'
QuestionKeyError ==
    /\ pc = "paragraphs"
    /\ strategy = "AddSent"
    /\ has_key(CurrentArticle, "paragraphs")
    /\ paragraph_i < Len(CurrentArticle.paragraphs)
    /\ has_key(NextParagraph, "context")
    /\ has_key(NextParagraph, "qas")
    /\ \E k \in 1..Len(NextParagraph.qas) :
         /\ ~has_key(NextParagraph.qas[k], "question")
         /\ seeded(<<k>>)
         /\ draws' = Append(draws, k)
         /\ choices' = <<NextParagraph.qas[k]>>
    /\ pc' = "raised"
    /\ exc' = "KeyError"
    /\ UNCHANGED <<eval_vars, f1, first_run, strategy, kwargs, num_sentences,
                   input_file, output_file, data, new_data, new_article,
                   adv_context, new_qas, article_i, paragraph_i, qa_i, reloc>>

FormatNext ==
    \/ EnterArticle
    \/ AddSentParagraph
    \/ AddSentNoQAPair
    \/ AddSentNoKeyWord
    \/ AddAnyParagraph
    \/ RelocateQA
    \/ LostQA
    \/ PassQA
    \/ EndParagraph
    \/ EndArticle
    \/ WriteOutput
    \/ TitleKeyError
    \/ ParagraphsKeyError
    \/ ContextKeyError
    \/ AddSentQasKeyError
    \/ AddAnyQasKeyError
    \/ QuestionKeyError

FormatSpec == FormatInit /\ [][FormatNext]_vars

\* a key the loops of process_squad_file read is absent from the corpus
MissingListedKey(corpus) ==
    \E a \in DOMAIN corpus.data :
      \/ ~has_key(corpus.data[a], "title")
      \/ ~has_key(corpus.data[a], "paragraphs")
      \/ \E p \in DOMAIN corpus.data[a].paragraphs :
           \/ ~has_key(corpus.data[a].paragraphs[p], "context")
           \/ ~has_key(corpus.data[a].paragraphs[p], "qas")

-----------------------------------------------------------------------------
(* C21: a corpus in which a paragraph's qas or context, or an article's     *)
(* paragraphs or title, is absent makes the transformation fail with        *)
(* FormatError, which ends the whole run.                                   *)

C21_MalformedFailsWithFormatError ==
    (MissingListedKey(input_file) /\ pc \in {"done", "raised"}) =>
      (pc = "raised" /\ exc = "FormatError")

-----------------------------------------------------------------------------
(* C23: when the caller does not give the number of sentences, AddAny       *)
(* appends N = 2 sentences to each paragraph.                               *)

C23_DefaultTwoSentences ==
    (strategy = "AddAny" /\ kwargs = NoKwargs /\ pc = "qas") =>
      /\ Len(choices) = 2
      /\ adv_context = ContextThen(CurrentParagraph.context, choices)

\* C23 as amended: when the caller does not give the number of sentences,
\* AddAny appends one sentence to each paragraph; it appends two when it is
\* called with num_sentences=2, as the notebook's own call does.
C23_DefaultOneSentence ==
    strategy = "AddAny" =>
      LET N == IF kwargs = NoKwargs THEN 1 ELSE 2
      IN  /\ pc = "qas" =>
               /\ Len(choices) = N
               /\ adv_context = ContextThen(CurrentParagraph.context, choices)
          /\ pc = "done" =>
               \A a \in ArticlesOf(Output) : \A p \in ParagraphsOf(Output, a) :
                 LET context == ParagraphAt(input_file, a, p).context
                     new_context == ParagraphAt(Output, a, p).context
                 IN  /\ Len(context) <= Len(new_context)
                     /\ PoolSentences(SubSeq(new_context, Len(context) + 1,
                                             Len(new_context)), N)

\* AddAny, called without num_sentences, has written the Paris paragraph
\* with one sentence of the pool
C23_Witness ==
    /\ strategy = "AddAny"
    /\ kwargs = NoKwargs
    /\ Written(1, 1)
    /\ ParagraphAt(Output, 1, 1).context
         = "Paris is the capital of France. " \o arbitrary_sentences[2]

-----------------------------------------------------------------------------
(* C24: the summary has exactly one row for each attack name present in the *)
(* result table; its Sample Size is the number of result rows with that     *)
(* name, so that the Sample Sizes add up to the number of rows, and each    *)
(* metric column is the mean of the metric over exactly those rows.         *)

\* the positions of the result rows of one attack
RowsOf(attack_name) == {i \in DOMAIN all_results : all_results[i].attack = attack_name}

\* the sum and the product of the values of a function of finite domain
RECURSIVE SumOf(_)
SumOf(f) ==
    IF DOMAIN f = {} THEN 0
    ELSE LET i == CHOOSE x \in DOMAIN f : TRUE
         IN  f[i] + SumOf([x \in DOMAIN f \ {i} |-> f[x]])

RECURSIVE ProductOf(_)
ProductOf(f) ==
    IF DOMAIN f = {} THEN 1
    ELSE LET i == CHOOSE x \in DOMAIN f : TRUE
         IN  f[i] * ProductOf([x \in DOMAIN f \ {i} |-> f[x]])

\* the fraction m is the mean of the fractions column[i]
IsMeanOf(m, column) ==
    LET D == ProductOf([i \in DOMAIN column |-> column[i].den])
        N == SumOf([i \in DOMAIN column |-> column[i].num * (D \div column[i].den)])
    IN  /\ m.den > 0
        /\ m.num * D * Cardinality(DOMAIN column) = N * m.den

C24_Summary ==
    eval_pc = "summarized" =>
      LET table == summary[1]
          names == {all_results[i].attack : i \in DOMAIN all_results}
      IN  /\ \A name \in names :
                Cardinality({j \in DOMAIN table : table[j].attack = name}) = 1
          /\ \A j \in DOMAIN table : table[j].attack \in names
          /\ SumOf([j \in DOMAIN table |-> table[j].sample_size])
               = Len(all_results)
          /\ \A j \in DOMAIN table :
               LET S == RowsOf(table[j].attack)
               IN  /\ table[j].sample_size = Cardinality(S)
                   /\ IsMeanOf(table[j].exact_match,
                               [i \in S |-> [num |-> IF all_results[i].exact_match
                                                     THEN 1 ELSE 0,
                                             den |-> 1]])
                   /\ IsMeanOf(table[j].f1_score,
                               [i \in S |-> all_results[i].f1_score])
                   /\ IsMeanOf(table[j].grammatical_errors,
                               [i \in S |-> [num |-> all_results[i].grammatical_errors,
                                             den |-> 1]])
                   /\ table[j].bleu_score[1] = "mean"
                   /\ Len(table[j].bleu_score[2]) = Cardinality(S)
                   /\ \A i \in S :
                        \E n \in DOMAIN table[j].bleu_score[2] :
                          table[j].bleu_score[2][n] = all_results[i].bleu_score

\* the summary of a table with two AddAny rows and one AddSent row, with
\* an F1 mean that is neither 0 nor 1 and a negative mean of errors
C24_Witness ==
    /\ eval_pc = "summarized"
    /\ Len(summary[1]) = 2
    /\ summary[1][1].attack = "AddAny" /\ summary[1][1].sample_size = 2
    /\ summary[1][2].attack = "AddSent" /\ summary[1][2].sample_size = 1
    /\ summary[1][1].f1_score = [num |-> 1, den |-> 4]
    /\ summary[1][1].grammatical_errors = [num |-> -1, den |-> 2]


-----------------------------------------------------------------------------
(* C30: in every evaluation row, exact_match = true implies f1_score = 1    *)
(* provided the ground truth has at least one token; when prediction and    *)
(* ground truth are both token-free, exact_match is true while f1_score is  *)
(* 0.                                                                       *)

TokenFree(text) == word_tokenize(lower(text)) = <<>>

\* exact_match implies an F1 of 1 in the rows whose ground truth has a token
ExactMatchGivesFullF1(row) ==
    (row.exact_match /\ ~TokenFree(row.ground_truth))
        => row.f1_score = Fraction(1, 1)

\* C30 as stated: every row of a token-free prediction and a token-free
\* ground truth has exact_match true and an F1 of 0
C30_TokenFreeRowsMatch ==
    \A i \in DOMAIN Rows :
        LET row == Rows[i]
        IN  /\ ExactMatchGivesFullF1(row)
            /\ (TokenFree(row.predicted_answer) /\ TokenFree(row.ground_truth))
                 => (row.exact_match /\ row.f1_score = Fraction(0, 1))

\* C30 amended: in every evaluation row, exact_match = true implies
\* f1_score = 1 provided the ground truth has at least one token; when
\* prediction and ground truth are both token-free, f1_score is 0, and
\* exact_match is true exactly when the two are the same string up to case
\* (both empty, say), false otherwise (an empty prediction against a ground
\* truth of one blank); a row with exact_match true and an F1 other than 1
\* is a row of two token-free texts
C30_ExactMatchAndF1 ==
    \A i \in DOMAIN Rows :
        LET row == Rows[i]
        IN  /\ ExactMatchGivesFullF1(row)
            /\ (TokenFree(row.predicted_answer) /\ TokenFree(row.ground_truth))
                 => /\ row.f1_score = Fraction(0, 1)
                    /\ row.exact_match
                         <=> lower(row.predicted_answer) = lower(row.ground_truth)
            /\ (row.predicted_answer = "" /\ row.ground_truth = "")
                 => (row.exact_match /\ row.f1_score = Fraction(0, 1))
            /\ (row.exact_match /\ row.f1_score # Fraction(1, 1))
                 => (TokenFree(row.predicted_answer) /\ TokenFree(row.ground_truth))

\* the result table holds a row of "Blue" against "blue" (exact match, F1 of
\* 1), a row of two empty texts (exact match, F1 of 0) and a row of an empty
\* prediction against a ground truth of one blank (no exact match, F1 of 0)
C30_Witness ==
    /\ \E i \in DOMAIN Rows :
         /\ Rows[i].predicted_answer = "Blue" /\ Rows[i].ground_truth = "blue"
         /\ Rows[i].exact_match /\ Rows[i].f1_score = Fraction(1, 1)
    /\ \E i \in DOMAIN Rows :
         /\ Rows[i].predicted_answer = "" /\ Rows[i].ground_truth = ""
         /\ Rows[i].exact_match /\ Rows[i].f1_score = Fraction(0, 1)
    /\ \E i \in DOMAIN Rows :
         /\ Rows[i].predicted_answer = "" /\ Rows[i].ground_truth = " "
         /\ ~Rows[i].exact_match /\ Rows[i].f1_score = Fraction(0, 1)


-----------------------------------------------------------------------------
(* A transformation notebook followed by the evaluation notebook: the file  *)
(* process_squad_file wrote is the attack file of its strategy              *)

\* a paragraph of more than 512 characters whose questions nlp knows:
\* "blue" crosses the 512th character, "dog" and "saw" lie before it
P_longsky ==
    Paragraph(LongContext,
              <<QA("ls1", Q_sky, <<Answer("blue", 510)>>),
                QA("ls2", Q_sky, <<Answer("dog", 8), Answer("saw", 2)>>)>>)

\* a paragraph whose answer text is not in its context, with a question
\* that has no key word
P_offtext ==
    Paragraph("The sky is blue.",
              <<QA("off1", Q_sky, <<Answer("red", 0)>>),
                QA("off2", Q_punct, <<>>)>>)

PipelineCorpora ==
    {Corpus("v2.0", <<Article("Long", <<P_longsky>>)>>),
     Corpus("v2.0", <<Article("Letters", <<P_mixed, P_sky>>)>>),
     Corpus("v2.0", <<Article("NoQas", <<P_noqas>>)>>),
     Corpus("v2.0", <<Article("Off", <<P_offtext>>)>>)}

PipelineInit == InitWith(PipelineCorpora, {<<>>})

\* the attack file the run wrote: its name is the name of the strategy
OwnAttack(k) == attack_files[k].attack_name = strategy

\* output_file is written: the evaluation notebook starts, and
\* load_squad_data(file_path) gives the data list of the written corpus for
\* the attack file of the strategy; the other attack files, which this run
\* did not write, hold no article
StartEvaluation ==
    /\ pc = "done"
    /\ eval_pc = "idle"
    /\ squad_files' = [k \in DOMAIN attack_files |->
                         IF OwnAttack(k) THEN output_file[1].data ELSE <<>>]
    /\ eval_pc' = "attacks"
    /\ UNCHANGED <<summary, attack_i, results, all_results, csv_file,
                   eval_article_i, eval_paragraph_i, eval_qa_i, calls,
                   process_vars, reloc, f1>>

PipelineNext ==
    \/ EnterArticle
    \/ AddSentParagraph
    \/ AddSentNoQAPair
    \/ AddSentNoKeyWord
    \/ AddAnyParagraph
    \/ RelocateQA
    \/ LostQA
    \/ PassQA
    \/ EndParagraph
    \/ EndArticle
    \/ WriteOutput
    \/ StartEvaluation
    \/ LoadAttack
    \/ EvalEnterArticle
    \/ EvalEnterParagraph
    \/ EvalUnanswered
    \/ EvalSkipped
    \/ EvalAppendRow
    \/ EvalEndParagraph
    \/ EvalEndArticle
    \/ ReturnResults
    \/ SaveResults

PipelineSpec == PipelineInit /\ [][PipelineNext]_vars


-----------------------------------------------------------------------------
(* C22: only the first answer of a QAPair is ever used: the transformation  *)
(* recomputes answer_start of answers[0] only and leaves every further      *)
(* answer of the QAPair (text and answer_start) unchanged, and              *)
(* evaluate_attack uses answers[0].text as the single ground truth.         *)

\* the answers of new_qa after those of qa: the same texts, and the same
\* answer_start but for the first answer
OnlyFirstStartMayDiffer(qa, new_qa) ==
    /\ Len(new_qa.answers) = Len(qa.answers)
    /\ \A k \in DOMAIN qa.answers :
         /\ new_qa.answers[k].text = qa.answers[k].text
         /\ k > 1 => new_qa.answers[k] = qa.answers[k]

C22_OnlyFirstAnswerUsed ==
    /\ pc = "done" =>
         /\ ArticlesOf(Output) = ArticlesOf(input_file)
         /\ \A a \in ArticlesOf(input_file) :
              /\ ParagraphsOf(Output, a) = ParagraphsOf(input_file, a)
              /\ \A p \in ParagraphsOf(input_file, a) :
                   /\ QAsOf(Output, a, p) = QAsOf(input_file, a, p)
                   /\ \A q \in QAsOf(input_file, a, p) :
                        /\ OnlyFirstStartMayDiffer(QAAt(input_file, a, p, q),
                                                   QAAt(Output, a, p, q))
                        /\ OnlyFirstStartMayDiffer(QAAt(input_file, a, p, q),
                                                   QAAt(data, a, p, q))
    /\ eval_pc # "idle" => IsPrefix(RowKeys(Rows), ExpectedRows)
    /\ eval_pc = "saved" =>
         /\ RowKeys(csv_file[1]) = ExpectedRows
         /\ \A i \in DOMAIN csv_file[1] :
              \E a \in ArticlesOf(Output) : \E p \in ParagraphsOf(Output, a) :
                \E q \in QAsOf(Output, a, p) :
                  /\ has_answers(QAAt(Output, a, p, q))
                  /\ csv_file[1][i].question = QAAt(Output, a, p, q).question
                  /\ csv_file[1][i].ground_truth
                       = FirstAnswer(QAAt(Output, a, p, q)).text

\* the QAPair m1 of "abab" went in with the answers "ab" at 2 and "b" at 3
\* and came out with "ab" at 0 and "b" still at 3; the table saved for the
\* written corpus has one row for m1, with ground truth "ab"
C22_Witness ==
    /\ eval_pc = "saved"
    /\ ParagraphAt(input_file, 1, 1) = P_mixed
    /\ QAAt(Output, 1, 1, 1).answers = <<Answer("ab", 0), Answer("b", 3)>>
    /\ Len(csv_file[1]) = 3
    /\ csv_file[1][1].ground_truth = "ab"
    /\ \A i \in DOMAIN csv_file[1] : csv_file[1][i].ground_truth # "b"


-----------------------------------------------------------------------------
(* C25: if the input paragraph satisfies the containment invariant, then    *)
(* after AddAny or AddSent every relocated answer_start is less than or     *)
(* equal to its input value and the relocated span lies entirely inside the *)
(* unchanged original-context prefix; it equals the input value exactly     *)
(* when the input offset was already the first occurrence of the answer     *)
(* text.                                                                    *)

\* every first answer of the paragraph is where its answer_start says
SatisfiesContainment(paragraph) ==
    \A q \in DOMAIN paragraph.qas :
        has_answers(paragraph.qas[q]) =>
            ContainedAt(paragraph.context, FirstAnswer(paragraph.qas[q]).text,
                        FirstAnswer(paragraph.qas[q]).answer_start)

C25_RelocatedNotLater ==
    pc = "done" =>
      \A a \in ArticlesOf(input_file) : \A p \in ParagraphsOf(input_file, a) :
        LET original == ParagraphAt(input_file, a, p)
        IN  SatisfiesContainment(original) =>
              \A q \in QAsOf(input_file, a, p) :
                has_answers(QAAt(input_file, a, p, q)) =>
                  LET old == FirstAnswer(QAAt(input_file, a, p, q))
                      new == FirstAnswer(QAAt(Output, a, p, q))
                  IN  /\ new.answer_start <= old.answer_start
                      /\ new.answer_start + Len(new.text) <= Len(original.context)
                      /\ OccursAt(original.context, new.text, new.answer_start)
                      /\ IsPrefix(original.context,
                                  ParagraphAt(Output, a, p).context)
                      /\ new.answer_start = old.answer_start <=>
                           \A j \in 0..old.answer_start - 1 :
                             ~OccursAt(original.context, old.text, j)

\* "abab" with "ab" at 2 and "ba" at 1 has been written: "ab" moved to 0,
\* its first occurrence, and "ba" stayed at 1
C25_Witness ==
    /\ Written(1, 1)
    /\ ParagraphAt(input_file, 1, 1) = P_mixed
    /\ SatisfiesContainment(P_mixed)
    /\ FirstAnswer(QAAt(Output, 1, 1, 1)) = Answer("ab", 0)
    /\ FirstAnswer(QAAt(Output, 1, 1, 3)) = Answer("ba", 1)


-----------------------------------------------------------------------------
(* C26: the output file is written only after every article and paragraph   *)
(* has been processed; if any error is raised during processing (missing    *)
(* key, answer text not found, empty choice), no output is written at all   *)
(* and a previously existing output file is left untouched, so a partially  *)
(* transformed corpus is never emitted.                                     *)

\* new_data holds an article for every article of the input, each with a
\* paragraph for every paragraph and a QAPair for every QAPair
EverythingProcessed ==
    /\ DOMAIN new_data.data = DOMAIN input_file.data
    /\ \A a \in DOMAIN input_file.data :
         /\ DOMAIN new_data.data[a].paragraphs = DOMAIN input_file.data[a].paragraphs
         /\ \A p \in DOMAIN input_file.data[a].paragraphs :
              DOMAIN new_data.data[a].paragraphs[p].qas
                = DOMAIN input_file.data[a].paragraphs[p].qas

C26_WrittenOnlyWhenComplete ==
    /\ [][output_file' # output_file =>
            /\ pc = "articles" /\ pc' = "done"
            /\ EverythingProcessed
            /\ output_file' = <<new_data>>]_vars
    /\ [][pc = "raised" => (pc' = "raised" /\ output_file' = output_file)]_vars
    /\ [][pc' = "raised" =>
            (output_file' = output_file /\ exc' \in {"KeyError", "ValueError", "IndexError"})]_vars
    /\ [](pc = "raised" => output_file \in OldOutputs)
    /\ [](pc = "done" => (output_file = <<new_data>> /\ EverythingProcessed))

\* a run has raised after its first article was through: new_data holds that
\* article, and output_file still holds the corpus of an earlier run
C26_Witness ==
    /\ pc = "raised"
    /\ exc = "KeyError"
    /\ Len(new_data.data) = 1
    /\ Len(input_file.data) = 2
    /\ output_file = <<OldOutput>>


-----------------------------------------------------------------------------
(* C27: a paragraph whose qas list is empty makes AddSent abort the whole   *)
(* run (choosing a QAPair from an empty list raises), whereas AddAny        *)
(* processes the same paragraph normally and outputs it with the perturbed  *)
(* context and an empty qas list.                                           *)

\* the loop over the paragraphs is at a paragraph without QAPairs
AtParagraphWithoutQAs ==
    /\ pc = "paragraphs"
    /\ paragraph_i < Len(CurrentArticle.paragraphs)
    /\ NextParagraph.qas = <<>>

C27_EmptyQasList ==
    /\ [][(AtParagraphWithoutQAs /\ strategy = "AddSent") =>
            /\ pc' = "raised" /\ exc' = "IndexError"
            /\ output_file' = output_file]_vars
    /\ [][(AtParagraphWithoutQAs /\ strategy = "AddAny") =>
            /\ pc' = "qas" /\ exc' = ""
            /\ new_qas' = <<>>
            /\ adv_context' = ContextThen(NextParagraph.context, choices')
            /\ Len(choices') = num_sentences
            /\ \A i \in DOMAIN choices' : choices'[i] \in Pool]_vars
    /\ [](pc = "done" =>
            \A a \in ArticlesOf(input_file) : \A p \in ParagraphsOf(input_file, a) :
              ParagraphAt(input_file, a, p).qas = <<>> =>
                /\ strategy = "AddAny"
                /\ ParagraphAt(Output, a, p).qas = <<>>
                /\ ParagraphAt(Output, a, p).context
                     # ParagraphAt(input_file, a, p).context
                /\ IsPrefix(ParagraphAt(input_file, a, p).context,
                            ParagraphAt(Output, a, p).context)
                /\ PoolSentences(
                     SubSeq(ParagraphAt(Output, a, p).context,
                            Len(ParagraphAt(input_file, a, p).context) + 1,
                            Len(ParagraphAt(Output, a, p).context)),
                     num_sentences))
    /\ []((pc = "raised" /\ choices = <<>> /\ exc = "IndexError") =>
            (strategy = "AddSent" /\ output_file = <<>>))

\* AddAny has written the paragraph "ab" without QAPairs, its context
\* followed by a sentence of the pool, its qas list empty
C27_Witness ==
    /\ strategy = "AddAny"
    /\ num_sentences = 1
    /\ Written(1, 1)
    /\ ParagraphAt(input_file, 1, 1) = P_noqas
    /\ ParagraphAt(Output, 1, 1)
         = Paragraph("ab " \o arbitrary_sentences[1], <<>>)

\* AddSent has raised on the paragraph "ab" without QAPairs
C27_WitnessAddSent ==
    /\ strategy = "AddSent"
    /\ pc = "raised" /\ exc = "IndexError"
    /\ article_i = 1 /\ paragraph_i = 0
    /\ CurrentArticle.paragraphs = <<P_noqas>>
    /\ output_file = <<>>


-----------------------------------------------------------------------------
(* C28: in AddSent, relocation of the QAPair chosen to build the            *)
(* adversarial sentence never fails when that QAPair has a non-empty answer *)
(* text, because the appended sentence contains the answer text; if the     *)
(* text does not occur in the original context, the relocated answer_start  *)
(* points into (or across the boundary of) the appended sentence instead of *)
(* the original passage.                                                    *)

\* the index random.choice(qas) drew for the paragraph the loop is in
ChosenIndex == draws[Len(draws) - 1]

\* the loop over the QAPairs is at the chosen QAPair, whose first answer has
\* a text that is not empty
AtChosenQA ==
    /\ strategy = "AddSent"
    /\ pc = "qas"
    /\ qa_i < Len(CurrentParagraph.qas)
    /\ qa_i + 1 = ChosenIndex
    /\ has_answers(NextQA)
    /\ FirstAnswer(NextQA).text # ""

C28_ChosenQAIsRelocated ==
    /\ [](AtChosenQA =>
            /\ NextQA.question = choices[1].question
            /\ \E i \in Len(CurrentParagraph.context) + 1..Len(adv_context) :
                 OccursAt(adv_context, FirstAnswer(NextQA).text, i))
    /\ [][AtChosenQA =>
            LET text == FirstAnswer(NextQA).text
                context == CurrentParagraph.context
                relocated == new_qas'[Len(new_qas')]
            IN  /\ pc' = "qas" /\ exc' = ""
                /\ qa_i' = qa_i + 1
                /\ Len(new_qas') = Len(new_qas) + 1
                /\ FirstAnswer(relocated).text = text
                /\ OccursAt(adv_context, text, FirstAnswer(relocated).answer_start)
                /\ ~str_in(text, context) =>
                     FirstAnswer(relocated).answer_start + Len(text) > Len(context)
                /\ str_in(text, context) =>
                     FirstAnswer(relocated).answer_start + Len(text) <= Len(context)]_vars

\* AddSent chose the QAPair of "abab" whose answer text "xyz" is not in the
\* context, and the output has it at an answer_start behind the context
C28_Witness ==
    /\ strategy = "AddSent"
    /\ Written(1, 1)
    /\ ParagraphAt(input_file, 1, 1) = P_lost
    /\ choices[1].question = Q_sky
    /\ FirstAnswer(QAAt(Output, 1, 1, 2)).text = "xyz"
    /\ FirstAnswer(QAAt(Output, 1, 1, 2)).answer_start > Len("abab")
    /\ OccursAt(ParagraphAt(Output, 1, 1).context, "xyz",
                FirstAnswer(QAAt(Output, 1, 1, 2)).answer_start)


-----------------------------------------------------------------------------
(* C29: for a corpus satisfying the containment invariant, the append-only  *)
(* transformations do not change which QAPairs survive the evaluator's      *)
(* 512-character check: a QAPair passes the check on the AddAny/AddSent     *)
(* output if and only if it passes it on the original corpus, so            *)
(* evaluate_attack yields the same number of rows for the original, the     *)
(* AddAny and the AddSent corpus.                                           *)

\* the QAPairs of a corpus for which evaluate_attack appends a row
PassingQAs(corpus) ==
    {x \in UNION {UNION {{<<a, p, q>> : q \in QAsOf(corpus, a, p)} :
                           p \in ParagraphsOf(corpus, a)} :
                    a \in ArticlesOf(corpus)} :
        /\ has_answers(QAAt(corpus, x[1], x[2], x[3]))
        /\ in_truncated_context(FirstAnswer(QAAt(corpus, x[1], x[2], x[3])).text,
                                ParagraphAt(corpus, x[1], x[2]).context)}

\* every paragraph of the input corpus satisfies the containment invariant
InputSatisfiesContainment ==
    \A a \in ArticlesOf(input_file) : \A p \in ParagraphsOf(input_file, a) :
        SatisfiesContainment(ParagraphAt(input_file, a, p))

\* the rows of the attack file the run wrote
OwnRows == SelectSeq(Rows, LAMBDA row : row.attack = strategy)

C29_SameQAPairsSurvive ==
    /\ (pc = "done" /\ InputSatisfiesContainment) =>
         PassingQAs(Output) = PassingQAs(input_file)
    /\ (eval_pc = "saved" /\ InputSatisfiesContainment) =>
         Len(OwnRows) = Cardinality(PassingQAs(input_file))

\* the long paragraph has been transformed and evaluated: "dog" passes the
\* check before and after, "blue" fails it before and after, the table has
\* one row
C29_Witness ==
    /\ eval_pc = "saved"
    /\ InputSatisfiesContainment
    /\ ParagraphAt(input_file, 1, 1) = P_longsky
    /\ Len(ParagraphAt(Output, 1, 1).context) > Len(LongContext)
    /\ PassingQAs(input_file) = {<<1, 1, 2>>}
    /\ PassingQAs(Output) = {<<1, 1, 2>>}
    /\ Len(OwnRows) = 1
    /\ OwnRows[1].ground_truth = "dog"

\* without containment the check may tell the corpora apart: "red" is in
\* the sentence AddSent appended, not in the original context
C29_WitnessOffText ==
    /\ eval_pc = "saved"
    /\ ~InputSatisfiesContainment
    /\ ParagraphAt(input_file, 1, 1) = P_offtext
    /\ PassingQAs(input_file) = {}
    /\ Len(OwnRows) = 1

=============================================================================
